---- MODULE Spec2Model ----
(***************************************************************************)
(* Ghouri Town dashboard: the SQLite store (residents, families, bills,    *)
(* funds, contributions), the two connections the pages use, and the page  *)
(* handlers that write to or read from the store.                          *)
(*                                                                         *)
(* Text is a tuple of one-character strings, so that str.strip() is a real *)
(* conversion.  A REAL cell is a record [k, v]: k = "num" carries v,       *)
(* k = "nan" is pandas NaN / SQL NULL, k = "none" is Python None.          *)
(***************************************************************************)
EXTENDS Integers, Sequences, FiniteSets, Bags, TLC

VARIABLES
    db,     \* the committed content of residents.db
    tx,     \* the open transaction of the session connection st.session_state["_db_conn"]
    last,   \* the last handler that ran: its name, arguments and outcome
    calls,  \* per session: the get_or_create_fund call in flight on its own connection
    session,\* per session: st.session_state, a dictionary from key to value
    cache   \* st.cache_data of the process: a dictionary from loader to the frame it returned

vars == <<db, tx, last, calls, session, cache>>

----------------------------------------------------------------------------
(* Bounds *)

MaxResidents == 2       \* resident rows ever inserted (AUTOINCREMENT never reuses an id)
MaxFloors    == 2       \* largest floor count the forms are given
MaxFunds     == 2       \* fund rows ever inserted

----------------------------------------------------------------------------
(* Text *)

RECURSIVE LStrip(_)
LStrip(s) ==
    IF s = <<>> THEN s
    ELSE IF Head(s) = " " THEN LStrip(Tail(s)) ELSE s

RECURSIVE RStrip(_)
RStrip(s) ==
    IF s = <<>> THEN s
    ELSE IF s[Len(s)] = " " THEN RStrip(SubSeq(s, 1, Len(s) - 1)) ELSE s

\* str.strip()
Strip(s) == RStrip(LStrip(s))

\* bool(str): the empty string is the only falsy one
Truthy(s) == s # <<>>

\* Python None bound to a TEXT column
NoneText == <<"None">>

\* `x or None`
OrNone(s) == IF Truthy(s) THEN s ELSE NoneText

\* code point of the characters the model uses (SQLite BINARY collation)
CharCode(c) ==
    CASE c = " " -> 32
      [] c = "1" -> 49
      [] c = "2" -> 50
      [] c = "A" -> 65
      [] c = "B" -> 66
      [] c = "S" -> 83
      [] c = "f" -> 102
      [] c = "l" -> 108
      [] c = "o" -> 111
      [] OTHER   -> 120

\* a < b for two TEXT values
RECURSIVE TextLess(_, _)
TextLess(a, b) ==
    IF b = <<>> THEN FALSE
    ELSE IF a = <<>> THEN TRUE
    ELSE IF CharCode(Head(a)) # CharCode(Head(b)) THEN CharCode(Head(a)) < CharCode(Head(b))
    ELSE TextLess(Tail(a), Tail(b))

----------------------------------------------------------------------------
(* REAL cells *)

Num(n) == [k |-> "num", v |-> n]
NaN    == [k |-> "nan", v |-> 0]
NoneV  == [k |-> "none", v |-> 0]

IsNum(x) == x.k = "num"

\* float + float, float - float: NaN is absorbing
FAdd(a, b) == IF IsNum(a) /\ IsNum(b) THEN Num(a.v + b.v) ELSE NaN
FSub(a, b) == IF IsNum(a) /\ IsNum(b) THEN Num(a.v - b.v) ELSE NaN

\* pandas `x > 0`: False on NaN
FPos(a) == IsNum(a) /\ a.v > 0

\* `x or 0`: None and 0 are falsy, NaN is truthy
OrZero(x) == IF x.k = "none" THEN Num(0) ELSE x

\* DataFrame.sum(axis=1) and SQL COALESCE(x, 0): NaN / NULL counts as 0
NumOrZero(x) == IF IsNum(x) THEN x.v ELSE 0

----------------------------------------------------------------------------
(* The store *)

EmptyDb ==
    [ tables        |-> {},
      residents     |-> {},
      families      |-> EmptyBag,
      bills         |-> {},
      funds         |-> {},
      contributions |-> {},
      res_seq       |-> 0,
      fund_seq      |-> 0 ]

NoTx == [open |-> FALSE, w |-> EmptyDb]

\* what the session connection reads: its own uncommitted changes included
View == IF tx.open THEN tx.w ELSE db

Ids(w) == {r.id : r \in w.residents}

ResidentOf(w, rid) == CHOOSE r \in w.residents : r.id = rid

FamiliesOf(w, rid) == {f \in BagToSet(w.families) : f.resident_id = rid}

\* the families rows that do not belong to resident rid
FamiliesWithout(B, rid) == [e \in {x \in DOMAIN B : x.resident_id # rid} |-> B[e]]

\* the sessions whose get_or_create_fund calls are followed statement by statement
Sessions == {1, 2}

\* no call in flight, no transaction open on the session's connection
IdleCall == [pc |-> "idle", title |-> <<>>, month |-> <<>>, res |-> "none", ret |-> 0, lock |-> FALSE]

\* the session whose connection st.session_state["_db_conn"] is `tx`
Me == 1

----------------------------------------------------------------------------
(* Dictionaries: st.session_state and st.cache_data *)

NoKeys == [k \in {} |-> 0]

\* d[k] = v
Put(d, k, v) == [x \in DOMAIN d \cup {k} |-> IF x = k THEN v ELSE d[x]]

\* d.pop(k, None) and del d[k]
Pop(d, k) == [x \in DOMAIN d \ {k} |-> d[x]]

\* d.get(k, default)
Get(d, k, default) == IF k \in DOMAIN d THEN d[k] ELSE default

\* the keys of d that are in K, with their values
Keep(d, K) == [x \in DOMAIN d \cap K |-> d[x]]

----------------------------------------------------------------------------
(* auth.py and main.py: login, menu, logout, page dispatch *)

LowerChar(c) ==
    CASE c = "A" -> "a"
      [] c = "U" -> "u"
      [] OTHER   -> c

\* str.lower()
Lower(s) == [i \in 1..Len(s) |-> LowerChar(s[i])]

NameAdmin == <<"a", "d", "m", "i", "n">>
NameUser  == <<"u", "s", "e", "r">>

\* USERS
USERS ==
    { [username |-> NameAdmin, password |-> "admin123", role |-> "admin"],
      [username |-> NameUser,  password |-> "user123",  role |-> "user"] }

\* authenticate: the role, or "None"
authenticate(username, password) ==
    LET info == {u \in USERS : u.username = Lower(username)} IN
    IF info # {} /\ password = (CHOOSE u \in info : TRUE).password
    THEN (CHOOSE u \in info : TRUE).role
    ELSE "None"

\* session bootstrap: the three keys of a session that is not logged in
Bootstrap(d) ==
    IF "logged_in" \in DOMAIN d THEN d
    ELSE Put(Put(Put(d, "logged_in", FALSE), "role", "None"), "username", NoneText)

\* the sidebar radio of the role
Menu(role) ==
    IF role = "admin"
    THEN {"Dashboard", "Enter Data", "Edit Data", "Delete Data", "Bill Entry",
          "Funds Entry", "View Data", "Defaulters", "Logout"}
    ELSE {"Dashboard", "View Data", "Logout"}

\* page_modules
page_modules ==
    {"Dashboard", "Enter Data", "Edit Data", "Delete Data", "Bill Entry",
     "Funds Entry", "View Data", "Defaulters"}

\* main.py reaches page.render() of `page` in session s
Dispatch(s, page) ==
    /\ session[s]["logged_in"]
    /\ page \in Menu(session[s]["role"])
    /\ page # "Logout"
    /\ page \in page_modules

\* get_conn of the pages: the connection is kept under "_db_conn"
WithConn(d) == Put(d, "_db_conn", TRUE)

\* the login form submitted with a username and a password
Login(s, username, password) ==
    /\ ~session[s]["logged_in"]
    /\ LET role == authenticate(username, password) IN
       /\ session' = [session EXCEPT ![s] =
                         IF role # "None"
                         THEN Put(Put(Put(@, "logged_in", TRUE), "role", role), "username", username)
                         ELSE @]
       /\ last' = [op |-> "login", res |-> IF role # "None" THEN "ok" ELSE "invalid",
                   arg |-> [s |-> s, username |-> username, password |-> password], out |-> role]
    /\ UNCHANGED <<db, tx, calls, cache>>

\* "Logout" chosen in the sidebar: session_state.clear(), rerun, bootstrap
Logout(s) ==
    /\ session[s]["logged_in"]
    /\ "Logout" \in Menu(session[s]["role"])
    /\ session' = [session EXCEPT ![s] = Bootstrap(NoKeys)]
    /\ last' = [op |-> "logout", res |-> "ok", arg |-> [s |-> s], out |-> <<>>]
    /\ UNCHANGED <<db, tx, calls, cache>>

\* the administrator logs in
LoginAdmin == Login(Me, NameAdmin, "admin123")

----------------------------------------------------------------------------
(* st.cache_data.  A button handler ends in st.cache_data.clear() and       *)
(* st.rerun(), or leaves the cache alone; the frames are loaded, and kept,   *)
(* when a page is drawn, which is what the listing actions do.              *)

\* what a cached loader returns: the stored frame on a hit, the fresh one on a miss
Cached(c, loader, fresh) == IF loader \in DOMAIN c THEN c[loader] ELSE fresh

\* the cache after a call of the loader
Remember(c, loader, fresh) == IF loader \in DOMAIN c THEN c ELSE Put(c, loader, fresh)

\* the content of a connection: its own uncommitted changes included
ViewOf(cdb, ctx) == IF ctx.open THEN ctx.w ELSE cdb

\* the cached loaders of the pages; a residents frame is kept as the ids of its rows
EditLoader      == "edit_data.load_residents"
DeleteLoader    == "delete_data.load_residents_df"
FundsResLoader  == "funds_entry.load_residents"
FundsLoader     == "funds_entry.load_funds"
ViewResLoader   == "view_data.load_residents"
ViewFundsLoader == "view_data.load_funds_summary"

\* load_residents of edit_data.py
edit_load_residents(w) == {r.id : r \in w.residents}

\* load_residents_df of delete_data.py
load_residents_df(w) == {r.id : r \in w.residents}

\* load_residents of funds_entry.py
funds_load_residents(w) == {r.id : r \in w.residents}

Init ==
    /\ db = EmptyDb
    /\ tx = NoTx
    /\ last = [op |-> "start", res |-> "ok", arg |-> <<>>, out |-> <<>>]
    /\ calls = [s \in Sessions |-> IdleCall]
    /\ session = [s \in Sessions |-> Bootstrap(NoKeys)]
    /\ cache = NoKeys

----------------------------------------------------------------------------
(* enter_data.py *)

\* init_db: CREATE TABLE IF NOT EXISTS residents, families; commit
init_db(w) == [w EXCEPT !.tables = @ \cup {"residents", "families"}]

\* the validation of render, before any write
CreateValid(d, fams) ==
    /\ Truthy(d.house_no) /\ Truthy(d.street_name)
    /\ Truthy(d.owner_name) /\ Truthy(d.owner_cnic) /\ Truthy(d.owner_phone)
    /\ (d.is_rent => Truthy(d.lessee_name) /\ Truthy(d.lessee_cnic) /\ Truthy(d.lessee_phone))
    /\ \A i \in 1..Len(fams) :
          Truthy(fams[i].name) /\ Truthy(fams[i].cnic) /\ Truthy(fams[i].phone)

B2I(b) == IF b THEN 1 ELSE 0

\* the residents row _insert_resident binds
InsertRow(id, d) ==
    [ id            |-> id,
      house_no      |-> Strip(d.house_no),
      street_name   |-> d.street_name,
      owner_name    |-> Strip(d.owner_name),
      owner_cnic    |-> Strip(d.owner_cnic),
      owner_phone   |-> Strip(d.owner_phone),
      is_rent       |-> B2I(d.is_rent),
      lessee_name   |-> OrNone(d.lessee_name),
      lessee_cnic   |-> OrNone(d.lessee_cnic),
      lessee_phone  |-> OrNone(d.lessee_phone),
      floors        |-> d.floors,
      facility_water      |-> B2I(d.water),
      facility_security   |-> B2I(d.security),
      facility_sanitation |-> B2I(d.sanitation) ]

\* the families rows both writers bind: one per entry of families_input
FamilyRows(rid, fams) ==
    SetToBag({ [ resident_id |-> rid,
                 floor       |-> i,
                 head_name   |-> Strip(fams[i].name),
                 head_cnic   |-> Strip(fams[i].cnic),
                 head_phone  |-> Strip(fams[i].phone) ] : i \in 1..Len(fams) })

\* UNIQUE (house_no) as the INSERT checks it
HouseTakenNoConstraint(w, house) == FALSE

HouseTaken(w, house) == \E r \in w.residents : r.house_no = house

\* _insert_resident on the cached connection: the outcome and the store it leaves
InsertResident(w, d, fams) ==
    IF HouseTaken(w, Strip(d.house_no))
    THEN [res |-> "IntegrityError", w |-> w, id |-> 0]
    ELSE [res |-> "ok",
          id  |-> w.res_seq + 1,
          w   |-> [w EXCEPT !.residents = @ \cup {InsertRow(w.res_seq + 1, d)},
                            !.families  = @ (+) FamilyRows(w.res_seq + 1, fams),
                            !.res_seq   = @ + 1]]

\* render without a click: the footer count opens the cached connection
EnterDataDrawn ==
    /\ UNCHANGED <<calls, session, cache>>
    /\ "residents" \notin db.tables
    /\ db' = init_db(db)
    /\ last' = [op |-> "visit_enter_data", res |-> "ok", arg |-> <<>>, out |-> <<>>]
    /\ UNCHANGED tx

\* every key is deleted and the next run bootstraps the session
ResetFormEveryKey(d) == Bootstrap(NoKeys)

\* the post-save reset at the top of render, reached by the rerun after a save:
\* "reset_form" is popped and every key but the three of the login is deleted
ResetForm(d) == Keep(d, {"logged_in", "role", "username"})

\* the page chosen in the menu of main.py
VisitEnterData == Dispatch(Me, "Enter Data") /\ EnterDataDrawn

\* render with "Save Record" pressed
SaveRecord(d, fams) ==
    /\ UNCHANGED <<calls, cache>>
    /\ Len(fams) = d.floors
    /\ db.res_seq < MaxResidents
    /\ IF ~CreateValid(d, fams)
       THEN /\ last' = [op |-> "create_resident", res |-> "ValidationError",
                        arg |-> [d |-> d, fams |-> fams], out |-> 0]
            /\ UNCHANGED <<db, tx, session>>
       ELSE IF tx.open
       THEN \* the session connection holds the write lock: database is locked
            /\ last' = [op |-> "create_resident", res |-> "OperationalError",
                        arg |-> [d |-> d, fams |-> fams], out |-> 0]
            /\ UNCHANGED <<db, tx, session>>
       ELSE LET r == InsertResident(init_db(db), d, fams) IN
            /\ db' = r.w
            /\ last' = [op |-> "create_resident", res |-> r.res,
                        arg |-> [d |-> d, fams |-> fams], out |-> r.id]
            /\ session' = [session EXCEPT ![Me] = IF r.res = "ok" THEN ResetForm(@) ELSE @]
            /\ UNCHANGED tx

\* the page chosen in the menu of main.py, "Save Record" pressed
CreateResident(d, fams) == Dispatch(Me, "Enter Data") /\ SaveRecord(d, fams)

\* the files of pages/ that end with `if __name__ == "__main__": render()`
ScriptPages ==
    {"Enter Data", "Edit Data", "Bill Entry", "Funds Entry", "View Data", "Defaulters"}

\* a file of pages/ run as the main script (Streamlit serves every file of the
\* pages/ directory next to main.py as a page of its own, and the file can be
\* given to `streamlit run`): main.py is not executed and render is called
RunsRender(page) == page \in ScriptPages

\* pages/enter_data.py run as the main script
ScriptEnterData == RunsRender("Enter Data") /\ EnterDataDrawn

\* pages/enter_data.py run as the main script, "Save Record" pressed
ScriptSaveRecord(d, fams) == RunsRender("Enter Data") /\ SaveRecord(d, fams)

----------------------------------------------------------------------------
(* Storage faults.  A statement can fail in the store itself (disk full,   *)
(* I/O error): SQLite undoes that statement and normally keeps the         *)
(* transaction open, but it may also roll the whole transaction back.      *)
(* fault = 0 is a run without a fault; fault = k fails the k-th statement. *)

NoFault == 0

----------------------------------------------------------------------------
(* edit_data.py *)

\* the validation of render before update_resident_and_families
EditValid(d, fams) ==
    /\ Truthy(d.house_no) /\ Truthy(d.owner_name)
    /\ (d.is_rent => Truthy(d.lessee_name) /\ Truthy(d.lessee_cnic) /\ Truthy(d.lessee_phone))
    /\ \A i \in 1..Len(fams) :
          Truthy(fams[i].name) /\ Truthy(fams[i].cnic) /\ Truthy(fams[i].phone)

\* res_payload applied to the row by UPDATE residents SET ... WHERE id = ?
UpdateRow(old, d) ==
    [ id            |-> old.id,
      house_no      |-> Strip(d.house_no),
      street_name   |-> Strip(d.street_name),
      owner_name    |-> Strip(d.owner_name),
      owner_cnic    |-> Strip(d.owner_cnic),
      owner_phone   |-> Strip(d.owner_phone),
      is_rent       |-> B2I(d.is_rent),
      lessee_name   |-> IF d.is_rent THEN Strip(d.lessee_name) ELSE NoneText,
      lessee_cnic   |-> IF d.is_rent THEN Strip(d.lessee_cnic) ELSE NoneText,
      lessee_phone  |-> IF d.is_rent THEN Strip(d.lessee_phone) ELSE NoneText,
      floors        |-> d.floors,
      facility_water      |-> B2I(d.water),
      facility_security   |-> B2I(d.security),
      facility_sanitation |-> B2I(d.sanitation) ]

\* UNIQUE (house_no) as the UPDATE checks it: another row holds the new value
HouseCollides(w, rid, house) ==
    /\ rid \in Ids(w)
    /\ \E r \in w.residents : r.id # rid /\ r.house_no = house

\* a) UPDATE residents
UpdateStmt(w, rid, d) ==
    IF rid \in Ids(w)
    THEN [w EXCEPT !.residents = (@ \ {ResidentOf(w, rid)}) \cup {UpdateRow(ResidentOf(w, rid), d)}]
    ELSE w

\* b) DELETE FROM families WHERE resident_id = ?
DeleteFamiliesStmtKeepOld(w, rid) == w

DeleteFamiliesStmt(w, rid) ==
    [w EXCEPT !.families = FamiliesWithout(@, rid)]

\* b) executemany INSERT INTO families: rows 1..n of families_input
InsertFamiliesStmt(w, rid, fams, n) ==
    [w EXCEPT !.families = @ (+) FamilyRows(rid, SubSeq(fams, 1, n))]

\* the body of `with conn:`: the outcome and the working copy at exit
UpdateBody(w, rid, d, fams, fault) ==
    IF fault = 1 THEN [res |-> "OperationalError", w |-> w]
    ELSE IF HouseCollides(w, rid, Strip(d.house_no)) THEN [res |-> "IntegrityError", w |-> w]
    ELSE LET w1 == UpdateStmt(w, rid, d)
             w2 == DeleteFamiliesStmt(w1, rid)
         IN  IF fault = 2 THEN [res |-> "OperationalError", w |-> w1]
             ELSE IF rid \notin Ids(w2)
                  THEN \* FOREIGN KEY constraint failed on the first family row
                       [res |-> "IntegrityError", w |-> w2]
             ELSE IF fault >= 3
                  THEN [res |-> "OperationalError", w |-> InsertFamiliesStmt(w2, rid, fams, fault - 3)]
             ELSE [res |-> "ok", w |-> InsertFamiliesStmt(w2, rid, fams, Len(fams))]

\* sqlite3.Connection.__exit__: commit on success, rollback on an exception
ConnExitCommitAlways(cdb, r) == [db |-> r.w, tx |-> NoTx]

ConnExit(cdb, r) ==
    IF r.res = "ok" THEN [db |-> r.w, tx |-> NoTx] ELSE [db |-> cdb, tx |-> NoTx]

\* update_resident_and_families
update_resident_and_families(cdb, w, rid, d, fams, fault) ==
    LET r == UpdateBody(w, rid, d, fams, fault) IN
    [res |-> r.res, st |-> ConnExit(cdb, r)]

\* render with "Save changes" pressed for resident rid
UpdateResident(rid, d, fams, fault) ==
    /\ Dispatch(Me, "Edit Data")
    /\ UNCHANGED calls
    /\ session' = [session EXCEPT ![Me] = WithConn(@)]
    /\ "residents" \in View.tables
    /\ Len(fams) = d.floors
    /\ fault <= 2 + Len(fams)
    /\ IF ~EditValid(d, fams)
       THEN /\ fault = NoFault
            /\ last' = [op |-> "update_resident", res |-> "ValidationError",
                        arg |-> [rid |-> rid, d |-> d, fams |-> fams, fault |-> fault], out |-> 0]
            /\ UNCHANGED <<db, tx, cache>>
       ELSE LET u == update_resident_and_families(db, View, rid, d, fams, fault) IN
            /\ db' = u.st.db
            /\ tx' = u.st.tx
            /\ cache' = IF u.res = "ok" THEN NoKeys ELSE cache     \* st.cache_data.clear()
            /\ last' = [op |-> "update_resident", res |-> u.res,
                        arg |-> [rid |-> rid, d |-> d, fams |-> fams, fault |-> fault],
                        out |-> IF rid \in Ids(View) THEN ResidentOf(View, rid).floors ELSE 0]

----------------------------------------------------------------------------
(* delete_data.py *)

\* DELETE FROM residents WHERE id = ? on a connection without PRAGMA foreign_keys
DeleteResidentStmtNoCascade(w, rid) ==
    [w EXCEPT !.residents = {r \in @ : r.id # rid}]

\* DELETE FROM residents WHERE id = ? with ON DELETE CASCADE in force
DeleteResidentStmt(w, rid) ==
    [w EXCEPT !.residents     = {r \in @ : r.id # rid},
              !.families      = FamiliesWithout(@, rid),
              !.bills         = {b \in @ : b.resident_id # rid},
              !.contributions = {c \in @ : c.resident_id # rid}]

\* executemany over the first n ids of the list
RECURSIVE DeleteMany(_, _, _)
DeleteMany(w, ids, n) ==
    IF n = 0 THEN w ELSE DeleteResidentStmt(DeleteMany(w, ids, n - 1), ids[n])

\* the ids of a selection in the order of the table: ORDER BY id DESC
RECURSIVE DescList(_)
DescList(S) ==
    IF S = {} THEN <<>>
    ELSE LET m == CHOOSE x \in S : \A y \in S : y <= x IN <<m>> \o DescList(S \ {m})

\* delete_residents: no try, no rollback; commit only after every statement ran
delete_residents(cdb, ctx, ids, fault, auto) ==
    IF ids = <<>> THEN [res |-> "ok", db |-> cdb, tx |-> ctx]
    ELSE LET w == IF ctx.open THEN ctx.w ELSE cdb IN
         IF fault = NoFault
         THEN [res |-> "ok", db |-> DeleteMany(w, ids, Len(ids)), tx |-> NoTx]
         ELSE IF auto
         THEN [res |-> "OperationalError", db |-> cdb, tx |-> NoTx]
         ELSE [res |-> "OperationalError", db |-> cdb,
               tx |-> [open |-> TRUE, w |-> DeleteMany(w, ids, fault - 1)]]

\* render with "Delete selected" pressed on the ticked rows
DeleteResidents(sel, fault, auto) ==
    /\ Dispatch(Me, "Delete Data")
    /\ UNCHANGED calls
    /\ session' = [session EXCEPT ![Me] = WithConn(@)]
    /\ sel # {}
    /\ sel \subseteq Ids(View)
    /\ fault <= Cardinality(sel)
    /\ (fault = NoFault => ~auto)
    /\ LET r == delete_residents(db, tx, DescList(sel), fault, auto) IN
       /\ db' = r.db
       /\ tx' = r.tx
       /\ cache' = IF r.res = "ok" THEN NoKeys ELSE cache          \* st.cache_data.clear()
       /\ last' = [op |-> "delete_residents", res |-> r.res,
                   arg |-> [sel |-> sel, fault |-> fault],
                   out |-> [families      |-> Cardinality(UNION {FamiliesOf(View, rid) : rid \in sel}),
                            bills         |-> Cardinality({b \in View.bills : b.resident_id \in sel}),
                            contributions |-> Cardinality({c \in View.contributions : c.resident_id \in sel})]]

----------------------------------------------------------------------------
(* bill_entry.py *)

\* strftime("%Y-%m") and f"{y}-{m:02d}": the year and the two digits of the month
FmtMonth(y, m) == <<y, m \div 10, m % 10>>

\* module level: CREATE TABLE IF NOT EXISTS bills, then commit on the session connection
ImportBillEntry(cdb, ctx) ==
    LET w == IF ctx.open THEN ctx.w ELSE cdb IN
    IF "bills" \in w.tables THEN [db |-> cdb, tx |-> ctx]
    ELSE [db |-> [w EXCEPT !.tables = @ \cup {"bills"}], tx |-> NoTx]

\* ORDER BY street_name, house_no
RowBefore(a, b) ==
    \/ TextLess(a.street_name, b.street_name)
    \/ a.street_name = b.street_name /\ TextLess(a.house_no, b.house_no)

RECURSIVE OrderRows(_)
OrderRows(S) ==
    IF S = {} THEN <<>>
    ELSE LET m == CHOOSE x \in S : \A y \in S \ {x} : RowBefore(x, y)
         IN  <<m>> \o OrderRows(S \ {m})

\* load_residents of bill_entry.py and of defaulters.py
load_residents(w) == OrderRows(w.residents)

BillOf(w, rid, month) ==
    {b \in w.bills : b.resident_id = rid /\ b.billing_month = month}

\* INSERT ... ON CONFLICT(resident_id, billing_month) DO UPDATE SET ...
UpsertBill(w, row) ==
    [w EXCEPT !.bills = (@ \ BillOf(w, row.resident_id, row.billing_month)) \cup {row}]

\* the row save_rows binds for one line of the sheet
BillRow(line, month) ==
    [ resident_id     |-> line.rid,
      billing_month   |-> month,
      water_bill      |-> OrZero(line.water),
      security_bill   |-> OrZero(line.security),
      sanitation_bill |-> OrZero(line.sanitation),
      amount_paid     |-> FAdd(FAdd(line.water, line.security), line.sanitation) ]

\* float(None) raises TypeError when the total is computed
Unconvertible(line) ==
    line.water.k = "none" \/ line.security.k = "none" \/ line.sanitation.k = "none"

\* the for loop of save_rows from line i on: the outcome and the working copy at exit
RECURSIVE SaveLoop(_, _, _, _)
SaveLoop(w, df, month, i) ==
    IF i > Len(df) THEN [res |-> "ok", w |-> w]
    ELSE IF Unconvertible(df[i]) THEN [res |-> "TypeError", w |-> w]
    ELSE IF df[i].rid \notin Ids(w) THEN [res |-> "IntegrityError", w |-> w]
    ELSE SaveLoop(UpsertBill(w, BillRow(df[i], month)), df, month, i + 1)

\* `with closing(conn.cursor()) as cur, conn:` around the loop
SaveExitKeepPartial(cdb, r) == [db |-> r.w, tx |-> NoTx]

SaveExit(cdb, r) == ConnExit(cdb, r)

save_rows(cdb, w, df, month) ==
    LET r == SaveLoop(w, df, month, 1) IN
    [res |-> r.res, st |-> SaveExit(cdb, r)]

\* the sheet: one line per listed resident, then the lines of residents that
\* were deleted after the sheet was loaded
Sheet(order, cells) ==
    [i \in 1..Len(order) |->
        [ rid        |-> order[i],
          water      |-> cells[order[i]][1],
          security   |-> cells[order[i]][2],
          sanitation |-> cells[order[i]][3] ]]

\* render, lines 121-124: the paid cells the sheet shows for a resident;
\* a resident without a bill row of the month gets NaN, a stored NULL shows as 0
Blank == <<NaN, NaN, NaN>>

FillNa0(v) == IF v.k = "nan" THEN Num(0) ELSE v

LoadedCells(w, rid, month) ==
    IF BillOf(w, rid, month) = {} THEN Blank
    ELSE LET b == CHOOSE x \in BillOf(w, rid, month) : TRUE
         IN  <<FillNa0(b.water_bill), FillNa0(b.security_bill), FillNa0(b.sanitation_bill)>>

\* the sheet after the user typed `typed` into the row of resident `who`
\* (who = 0: nothing typed); rows of `gone` were loaded before their deletion
EditedCells(w, month, gone, who, typed) ==
    [rid \in Ids(w) \cup gone |->
        IF rid = who THEN typed
        ELSE IF rid \in gone THEN Blank
        ELSE LoadedCells(w, rid, month)]

\* render with "Save records" pressed; `gone` are the ids deleted by another
\* session between the load of the sheet and the save
SaveBills(y, m, cells, gone) ==
    LET imp   == ImportBillEntry(db, tx)
        w     == IF imp.tx.open THEN imp.tx.w ELSE imp.db
    IN
    /\ Dispatch(Me, "Bill Entry")
    /\ UNCHANGED <<calls, cache>>
    /\ session' = [session EXCEPT ![Me] = WithConn(@)]
    /\ gone \subseteq (1..w.res_seq) \ Ids(w)
    /\ DOMAIN cells = Ids(w) \cup gone
    /\ IF "residents" \notin w.tables
       THEN /\ db' = imp.db
            /\ tx' = imp.tx
            /\ last' = [op |-> "record_payments", res |-> "OperationalError",
                        arg |-> [month |-> FmtMonth(y, m), cells |-> cells], out |-> 0]
       ELSE LET rows  == load_residents(w)
                order == [i \in 1..Len(rows) |-> rows[i].id] \o DescList(gone)
                r     == save_rows(imp.db, w, Sheet(order, cells), FmtMonth(y, m))
            IN
            /\ db' = r.st.db
            /\ tx' = r.st.tx
            /\ last' = [op |-> "record_payments", res |-> r.res,
                        arg |-> [month |-> FmtMonth(y, m), cells |-> cells], out |-> 0]

----------------------------------------------------------------------------
(* defaulters.py *)

Services == {"water", "security", "sanitation"}

PaidCell(b, svc) ==
    CASE svc = "water"    -> b.water_bill
      [] svc = "security" -> b.security_bill
      [] OTHER            -> b.sanitation_bill

FlagOf(r, svc) ==
    CASE svc = "water"    -> r.facility_water
      [] svc = "security" -> r.facility_security
      [] OTHER            -> r.facility_sanitation

\* paid[svc].reindex(df.index, fill_value=0): 0 where the month has no row
PaidInMonth(w, rid, svc, month) ==
    IF BillOf(w, rid, month) = {} THEN Num(0)
    ELSE PaidCell(CHOOSE b \in BillOf(w, rid, month) : TRUE, svc)

\* 4a: df[col] += ... over the months 1..n of year y, starting from 0.0
RECURSIVE Accumulate(_, _, _, _, _)
Accumulate(w, rid, svc, y, n) ==
    IF n = 0 THEN Num(0)
    ELSE FAdd(Accumulate(w, rid, svc, y, n - 1), PaidInMonth(w, rid, svc, FmtMonth(y, n)))

\* the paid column of one resident for the scope
PaidFor(w, r, svc, q) ==
    IF q.scope = "Monthly" THEN PaidInMonth(w, r.id, svc, FmtMonth(q.y, q.m))
    ELSE Accumulate(w, r.id, svc, q.y, 12)

MonthCount(q) == IF q.scope = "Monthly" THEN 1 ELSE 12

\* the rate of the scope for every service, subscribed or not
DueForEveryService(r, svc, q) == q.rates[svc] * MonthCount(q)

\* 5: due and pending of one service
DueFor(r, svc, q) == FlagOf(r, svc) * q.rates[svc] * MonthCount(q)

\* pending of the months 1..n of year y, each month clamped at zero before summing
RECURSIVE ClampedMonths(_, _, _, _, _)
ClampedMonths(w, r, svc, q, n) ==
    IF n = 0 THEN Num(0)
    ELSE LET p == FSub(Num(FlagOf(r, svc) * q.rates[svc]),
                       PaidInMonth(w, r.id, svc, FmtMonth(q.y, n)))
         IN  FAdd(ClampedMonths(w, r, svc, q, n - 1), IF FPos(p) THEN p ELSE Num(0))

PendingClampedPerMonth(w, r, svc, q) ==
    IF q.scope = "Monthly"
    THEN FSub(Num(DueFor(r, svc, q)), PaidFor(w, r, svc, q))
    ELSE ClampedMonths(w, r, svc, q, 12)

PendingFor(w, r, svc, q) == FSub(Num(DueFor(r, svc, q)), PaidFor(w, r, svc, q))

\* 6: mask |= pending > 0 for every ticked service
Mask(w, r, q) == \E svc \in q.filter : FPos(PendingFor(w, r, svc, q))

\* the total taken over the ticked services only
DefaulterLineTickedOnly(w, r, q) ==
    [ resident_id        |-> r.id,
      house_no           |-> r.house_no,
      water_pending      |-> PendingFor(w, r, "water", q),
      security_pending   |-> PendingFor(w, r, "security", q),
      sanitation_pending |-> PendingFor(w, r, "sanitation", q),
      total_pending      |->
          FAdd(FAdd(IF "water" \in q.filter THEN PendingFor(w, r, "water", q) ELSE Num(0),
                    IF "security" \in q.filter THEN PendingFor(w, r, "security", q) ELSE Num(0)),
               IF "sanitation" \in q.filter THEN PendingFor(w, r, "sanitation", q) ELSE Num(0)) ]

DefaulterLine(w, r, q) ==
    [ resident_id        |-> r.id,
      house_no           |-> r.house_no,
      water_pending      |-> PendingFor(w, r, "water", q),
      security_pending   |-> PendingFor(w, r, "security", q),
      sanitation_pending |-> PendingFor(w, r, "sanitation", q),
      total_pending      |-> FAdd(FAdd(PendingFor(w, r, "water", q),
                                       PendingFor(w, r, "security", q)),
                                  PendingFor(w, r, "sanitation", q)) ]

\* df[mask] keeps the order of load_residents
DefaultersOf(w, q) ==
    LET rows == load_residents(w)
        kept == SelectSeq(rows, LAMBDA r : Mask(w, r, q))
    IN  [i \in 1..Len(kept) |-> DefaulterLine(w, kept[i], q)]

\* render: the outcome and the table it shows
find_defaulters(w, q) ==
    IF q.filter = {} THEN [res |-> "select_a_service", out |-> <<>>]
    ELSE IF ~({"residents", "bills"} \subseteq w.tables) THEN [res |-> "OperationalError", out |-> <<>>]
    ELSE LET table == DefaultersOf(w, q) IN
         IF table = <<>> THEN [res |-> "no_defaulters", out |-> <<>>]
         ELSE [res |-> "list", out |-> table]

FindDefaulters(q) ==
    /\ Dispatch(Me, "Defaulters")
    /\ UNCHANGED <<calls, cache>>
    /\ session' = [session EXCEPT ![Me] = IF q.filter = {} THEN @ ELSE WithConn(@)]
    /\ LET r == find_defaulters(View, q) IN
       last' = [op |-> "find_defaulters", res |-> r.res, arg |-> q, out |-> r.out]
    /\ UNCHANGED <<db, tx>>

----------------------------------------------------------------------------
(* funds_entry.py *)

\* module level: executescript(SCHEMA_SQL) commits what is pending, then creates the tables
ImportFundsEntry(cdb, ctx) ==
    LET w == IF ctx.open THEN ctx.w ELSE cdb IN
    IF {"funds", "contributions"} \subseteq w.tables THEN [db |-> cdb, tx |-> ctx]
    ELSE [db |-> [w EXCEPT !.tables = @ \cup {"funds", "contributions"}], tx |-> NoTx]

FundIds(w) == {f.id : f \in w.funds}

\* ORDER BY f.fund_month DESC, f.fund_title
MonthLess(a, b) ==
    \/ a[1] < b[1]
    \/ a[1] = b[1] /\ a[2] < b[2]
    \/ a[1] = b[1] /\ a[2] = b[2] /\ a[3] < b[3]

FundBeforeMonthAscending(a, b) ==
    \/ MonthLess(a.fund_month, b.fund_month)
    \/ a.fund_month = b.fund_month /\ TextLess(a.fund_title, b.fund_title)

FundBefore(a, b) ==
    \/ MonthLess(b.fund_month, a.fund_month)
    \/ a.fund_month = b.fund_month /\ TextLess(a.fund_title, b.fund_title)

RECURSIVE OrderFunds(_)
OrderFunds(S) ==
    IF S = {} THEN <<>>
    ELSE LET f == CHOOSE x \in S : \A y \in S \ {x} : FundBefore(x, y)
         IN  <<f>> \o OrderFunds(S \ {f})

\* SUM(c.amount) over the joined rows of one fund
RECURSIVE SumAmounts(_)
SumAmounts(S) ==
    IF S = {} THEN 0
    ELSE LET c == CHOOSE x \in S : TRUE IN NumOrZero(c.amount) + SumAmounts(S \ {c})

JoinedRows(w, f) == {c \in w.contributions : c.fund_id = f.id}

\* load_funds of funds_entry.py: n_contrib = SUM(CASE WHEN c.amount > 0 THEN 1 ELSE 0 END)
load_funds(w) ==
    LET fs == OrderFunds(w.funds) IN
    [i \in 1..Len(fs) |->
        [ id |-> fs[i].id, fund_title |-> fs[i].fund_title, fund_month |-> fs[i].fund_month,
          total_amt |-> SumAmounts(JoinedRows(w, fs[i])),
          n_contrib |-> Cardinality({c \in JoinedRows(w, fs[i]) : FPos(c.amount)}) ]]

\* load_funds_summary of view_data.py: n_contrib = COUNT(c.resident_id)
load_funds_summary(w) ==
    LET fs == OrderFunds(w.funds) IN
    [i \in 1..Len(fs) |->
        [ id |-> fs[i].id, fund_title |-> fs[i].fund_title, fund_month |-> fs[i].fund_month,
          total_amt |-> SumAmounts(JoinedRows(w, fs[i])),
          n_contrib |-> Cardinality(JoinedRows(w, fs[i])) ]]

\* the lookup finds nothing
FundsWithKeyNotFound(w, title, month) == {}

FundsWithKey(w, title, month) ==
    {f \in w.funds : f.fund_title = title /\ f.fund_month = month}

\* get_or_create_fund: the id, and the connection state it leaves
get_or_create_fund(cdb, ctx, title, month) ==
    LET w == IF ctx.open THEN ctx.w ELSE cdb IN
    IF FundsWithKey(w, title, month) # {}
    THEN [id |-> (CHOOSE f \in FundsWithKey(w, title, month) : TRUE).id, db |-> cdb, tx |-> ctx]
    ELSE [id |-> w.fund_seq + 1,
          db |-> [w EXCEPT !.funds = @ \cup {[id |-> w.fund_seq + 1,
                                              fund_title |-> title, fund_month |-> month]},
                           !.fund_seq = @ + 1],
          tx |-> NoTx]

\* render in new-fund mode with "Create fund" pressed
CreateFund(title, y, m) ==
    LET imp == ImportFundsEntry(db, tx) IN
    /\ Dispatch(Me, "Funds Entry")
    /\ UNCHANGED calls
    /\ Truthy(title)
    /\ (FundsWithKey(View, Strip(title), FmtMonth(y, m)) # {} \/ View.fund_seq < MaxFunds)
    /\ LET r == get_or_create_fund(imp.db, imp.tx, Strip(title), FmtMonth(y, m)) IN
       /\ db' = r.db
       /\ tx' = r.tx
       /\ session' = [session EXCEPT ![Me] = Put(WithConn(@), "active_fund_id", r.id)]
       /\ cache' = NoKeys                                          \* st.cache_data.clear()
       /\ last' = [op |-> "get_or_create_fund", res |-> "ok",
                   arg |-> [title |-> title, month |-> FmtMonth(y, m)], out |-> r.id]

\* get_or_create_fund of session s, statement by statement.
\* The SELECT: the id is returned when the key is found
GocLookup(s, title, month) ==
    /\ Dispatch(s, "Funds Entry")
    /\ calls[s].pc \in {"idle", "done"}
    /\ "funds" \in db.tables
    /\ LET found == FundsWithKey(db, title, month) IN
       IF found # {}
       THEN LET id == (CHOOSE f \in found : TRUE).id IN
            /\ calls' = [calls EXCEPT ![s] = [@ EXCEPT !.pc = "done", !.title = title,
                                                      !.month = month, !.res = "ok", !.ret = id]]
            /\ last' = [op |-> "get_or_create_fund", res |-> "ok",
                        arg |-> [title |-> title, month |-> month], out |-> id]
            /\ session' = [session EXCEPT ![s] = Put(WithConn(@), "active_fund_id", id)]
            /\ cache' = NoKeys
       ELSE /\ calls' = [calls EXCEPT ![s] = [@ EXCEPT !.pc = "missing", !.title = title,
                                                      !.month = month, !.res = "none", !.ret = 0]]
            /\ session' = [session EXCEPT ![s] = WithConn(@)]
            /\ UNCHANGED <<last, cache>>
    /\ UNCHANGED <<db, tx>>

\* the INSERT: it waits while another call is between its INSERT and its
\* commit, fails with "database is locked" while another connection keeps a
\* transaction open, fails on UNIQUE (fund_title, fund_month) when the key was
\* committed meanwhile, and leaves the implicit transaction open in every case
GocInsert(s) ==
    /\ calls[s].pc = "missing"
    /\ ~\E o \in Sessions \ {s} : calls[o].lock /\ calls[o].pc = "inserted"
    /\ IF \E o \in Sessions \ {s} : calls[o].lock
       THEN /\ calls' = [calls EXCEPT ![s] = [@ EXCEPT !.pc = "done", !.res = "OperationalError"]]
            /\ last' = [op |-> "get_or_create_fund", res |-> "OperationalError",
                        arg |-> [title |-> calls[s].title, month |-> calls[s].month], out |-> 0]
       ELSE IF FundsWithKey(db, calls[s].title, calls[s].month) # {}
       THEN /\ calls' = [calls EXCEPT ![s] = [@ EXCEPT !.pc = "done", !.res = "IntegrityError",
                                                      !.lock = TRUE]]
            /\ last' = [op |-> "get_or_create_fund", res |-> "IntegrityError",
                        arg |-> [title |-> calls[s].title, month |-> calls[s].month], out |-> 0]
       ELSE /\ db.fund_seq < MaxFunds
            /\ calls' = [calls EXCEPT ![s] = [@ EXCEPT !.pc = "inserted", !.ret = db.fund_seq + 1,
                                                      !.lock = TRUE]]
            /\ UNCHANGED last
    /\ UNCHANGED <<db, tx, session, cache>>

\* conn.commit() and return cur.lastrowid; render then keeps the id, clears the
\* cache and reruns
GocCommit(s) ==
    /\ calls[s].pc = "inserted"
    /\ db' = [db EXCEPT !.funds = @ \cup {[id |-> calls[s].ret, fund_title |-> calls[s].title,
                                          fund_month |-> calls[s].month]},
                        !.fund_seq = calls[s].ret]
    /\ calls' = [calls EXCEPT ![s] = [@ EXCEPT !.pc = "done", !.res = "ok", !.lock = FALSE]]
    /\ last' = [op |-> "get_or_create_fund", res |-> "ok",
                arg |-> [title |-> calls[s].title, month |-> calls[s].month], out |-> calls[s].ret]
    /\ session' = [session EXCEPT ![s] = Put(@, "active_fund_id", calls[s].ret)]
    /\ cache' = NoKeys
    /\ UNCHANGED tx

\* DELETE FROM funds WHERE id = ? with ON DELETE CASCADE in force
DeleteFundStmtNoCascade(w, fid) ==
    [w EXCEPT !.funds = {f \in @ : f.id # fid}]

DeleteFundStmt(w, fid) ==
    [w EXCEPT !.funds         = {f \in @ : f.id # fid},
              !.contributions = {c \in @ : c.fund_id # fid}]

\* the fund of the confirmation prompt: st.session_state.get("delete_target_id")
DeleteTarget(s) == Get(session[s], "delete_target_id", 0)

\* render with "Delete this fund" pressed while fund fid is selected: the
\* target is kept, the prompt is shown and the page is drawn to its end
PressDeleteFund(fid) ==
    /\ Dispatch(Me, "Funds Entry")
    /\ {"funds", "contributions", "residents"} \subseteq View.tables
    /\ \E i \in 1..Len(Cached(cache, FundsLoader, load_funds(View))) :
          Cached(cache, FundsLoader, load_funds(View))[i].id = fid
    /\ session' = [session EXCEPT ![Me] = Put(WithConn(@), "delete_target_id", fid)]
    /\ last' = [op |-> "press_delete_fund", res |-> "ok", arg |-> fid, out |-> 0]
    /\ UNCHANGED <<db, tx, calls, cache>>

\* render with "Cancel" pressed in the prompt of fund fid
CancelDeleteFund(fid) ==
    /\ Dispatch(Me, "Funds Entry")
    /\ {"funds", "contributions", "residents"} \subseteq View.tables
    /\ \E i \in 1..Len(Cached(cache, FundsLoader, load_funds(View))) :
          Cached(cache, FundsLoader, load_funds(View))[i].id = fid
    /\ DeleteTarget(Me) = fid
    /\ session' = [session EXCEPT ![Me] = Pop(WithConn(@), "delete_target_id")]
    /\ last' = [op |-> "cancel_delete_fund", res |-> "ok", arg |-> fid, out |-> 0]
    /\ UNCHANGED <<db, tx, calls, cache>>

\* the prompt with its two buttons is drawn for every fund
PromptAlways(s, fid) == TRUE

\* the prompt with its two buttons is drawn for the selected fund fid
Prompt(s, fid) == DeleteTarget(s) = fid

\* render with "Yes, delete" pressed for the selected fund
DeleteFund(fid) ==
    /\ Dispatch(Me, "Funds Entry")
    /\ UNCHANGED calls
    /\ fid \in FundIds(View)
    /\ Prompt(Me, fid)
    /\ session' = [session EXCEPT ![Me] = Pop(WithConn(@), "delete_target_id")]
    /\ cache' = NoKeys                                             \* st.cache_data.clear()
    /\ db' = DeleteFundStmt(View, fid)
    /\ tx' = NoTx
    /\ last' = [op |-> "delete_fund", res |-> "ok", arg |-> fid,
                out |-> Cardinality({c \in View.contributions : c.fund_id = fid})]

\* render with fund fid chosen in the selector and no button pressed: the
\* selector, the prompt if it is due, and the editor over the residents
FundsEditor(fid) ==
    LET funds_df == Cached(cache, FundsLoader, load_funds(View))
        c1       == Remember(cache, FundsLoader, load_funds(View))
    IN
    /\ Dispatch(Me, "Funds Entry")
    /\ {"funds", "contributions"} \subseteq View.tables
    /\ \E i \in 1..Len(funds_df) : funds_df[i].id = fid
    /\ UNCHANGED <<db, tx, calls>>
    /\ IF FundsResLoader \notin DOMAIN cache /\ "residents" \notin View.tables
       THEN \* load_residents: no such table
            /\ cache' = c1
            /\ session' = [session EXCEPT ![Me] = WithConn(@)]
            /\ last' = [op |-> "funds_editor", res |-> "OperationalError", arg |-> fid,
                        out |-> <<>>]
       ELSE /\ cache' = Remember(c1, FundsResLoader, funds_load_residents(View))
            /\ session' = [session EXCEPT ![Me] = WithConn(@)]
            /\ last' = [op |-> "funds_editor", res |-> "ok", arg |-> fid,
                        out |-> [ funds     |-> funds_df,
                                  prompt    |-> Prompt(Me, fid),
                                  residents |-> Cached(cache, FundsResLoader,
                                                       funds_load_residents(View)),
                                  contributions |->
                                      {c \in View.contributions : c.fund_id = fid} ]]

\* 4-F: a ticked line without a positive amount
BadLineAbsentOnly(line) == line.ticked /\ ~IsNum(line.amount)

BadLine(line) == line.ticked /\ (~IsNum(line.amount) \/ line.amount.v <= 0)

ContributionOf(w, fid, rid) ==
    {c \in w.contributions : c.fund_id = fid /\ c.resident_id = rid}

\* INSERT ... ON CONFLICT(fund_id, resident_id) DO UPDATE SET amount
UpsertContribution(w, fid, rid, amount) ==
    [w EXCEPT !.contributions = (@ \ ContributionOf(w, fid, rid))
                                \cup {[fund_id |-> fid, resident_id |-> rid, amount |-> amount]}]

\* executemany over to_upsert, in the order of the listing (rowid order)
RECURSIVE UpsertMany(_, _, _, _)
UpsertMany(w, fid, rows, todo) ==
    IF todo = {} THEN [res |-> "ok", w |-> w]
    ELSE LET rid == CHOOSE x \in todo : \A y \in todo : x <= y IN
         IF fid \notin FundIds(w) \/ rid \notin Ids(w)
         THEN [res |-> "IntegrityError", w |-> w]
         ELSE UpsertMany(UpsertContribution(w, fid, rid, rows[rid].amount), fid, rows, todo \ {rid})

\* executemany over to_delete
DeleteContributionsNone(w, fid, rids) == w

DeleteContributions(w, fid, rids) ==
    [w EXCEPT !.contributions = {c \in @ : ~(c.fund_id = fid /\ c.resident_id \in rids)}]

\* the body of `with conn:` in 4-F
ContributionBody(w, fid, rows) ==
    LET up == UpsertMany(w, fid, rows, {rid \in DOMAIN rows : rows[rid].ticked}) IN
    IF up.res # "ok" THEN up
    ELSE [res |-> "ok",
          w   |-> DeleteContributions(up.w, fid, {rid \in DOMAIN rows : ~rows[rid].ticked})]

\* render with "Save contributions" pressed for fund fid
SaveContributions(fid, rows) ==
    /\ Dispatch(Me, "Funds Entry")
    /\ UNCHANGED calls
    /\ session' = [session EXCEPT ![Me] = WithConn(@)]
    /\ {"funds", "contributions", "residents"} \subseteq View.tables
    /\ IF \E rid \in DOMAIN rows : BadLine(rows[rid])
       THEN /\ last' = [op |-> "save_contributions", res |-> "InvalidArgument",
                        arg |-> [fid |-> fid, rows |-> rows], out |-> 0]
            /\ UNCHANGED <<db, tx, cache>>
       ELSE LET r == ContributionBody(View, fid, rows)
                e == ConnExit(db, r)
            IN
            /\ db' = e.db
            /\ tx' = e.tx
            /\ cache' = IF r.res = "ok" THEN NoKeys ELSE cache     \* st.cache_data.clear()
            /\ last' = [op |-> "save_contributions", res |-> r.res,
                        arg |-> [fid |-> fid, rows |-> rows], out |-> 0]

\* pd.DataFrame(): the frame a loader returns when its table is missing
NoColumns == [cols |-> FALSE]

Frame(rows) == [cols |-> TRUE, rows |-> rows]

\* load_funds_summary of view_data.py as cached
view_load_funds_summary(w) ==
    IF "funds" \notin w.tables THEN NoColumns ELSE Frame(load_funds_summary(w))

\* the fund overview of funds_entry.py and the funds tab of view_data.py
FundSummary ==
    /\ Dispatch(Me, "Funds Entry")
    /\ Dispatch(Me, "View Data")
    /\ UNCHANGED calls
    /\ session' = [session EXCEPT ![Me] = WithConn(@)]
    /\ "funds" \in View.tables
    /\ "contributions" \in View.tables
    /\ last' = [op |-> "fund_summary", res |-> "ok", arg |-> <<>>,
                out |-> [entry |-> Cached(cache, FundsLoader, load_funds(View)),
                         view  |-> Cached(cache, ViewFundsLoader, view_load_funds_summary(View)).rows]]
    /\ cache' = Remember(Remember(cache, FundsLoader, load_funds(View)),
                         ViewFundsLoader, view_load_funds_summary(View))
    /\ UNCHANGED <<db, tx>>

----------------------------------------------------------------------------
(* Inputs of the forms *)

TA   == <<"A">>
TASp == <<"A", " ">>
TB   == <<"B">>
TX   == <<"x">>
TF   == <<"f">>
TG   == <<"g">>
St1  == <<"S", "1">>

Year == 2024

\* an owner-occupied house with every owner field filled in
House(house, floors, water, security, sanitation) ==
    [ house_no |-> house, street_name |-> St1,
      owner_name |-> TX, owner_cnic |-> TX, owner_phone |-> TX,
      is_rent |-> FALSE, lessee_name |-> <<>>, lessee_cnic |-> <<>>, lessee_phone |-> <<>>,
      floors |-> floors,
      water |-> water, security |-> security, sanitation |-> sanitation ]

\* families_input with every field filled in
Heads(n) == [i \in 1..n |-> [name |-> TF, cnic |-> TF, phone |-> TF]]

----------------------------------------------------------------------------
(* view_data.py: the cached loaders, the two filters and the overview *)

Hyphen   == "-"
\* the character U+2011 (non-breaking hyphen)
NbHyphen == "U+2011"

AlRehmanRoad(h) == <<"A", "l", h, "R", "e", "h", "m", "a", "n", " ", "R", "o", "a", "d">>

\* STREETS of enter_data.py: the first entry and Street 1 (the entries between
\* them are spelled the same in both lists)
enter_STREETS == {AlRehmanRoad(NbHyphen), St1}

\* STREETS of view_data.py: the first entry and Street 1
view_STREETS == {AlRehmanRoad(Hyphen), St1}

FACILITIES == {"Water", "Security", "Sanitation"}

\* load_residents of view_data.py: the flags as booleans
view_load_residents(w) ==
    IF "residents" \notin w.tables THEN NoColumns
    ELSE Frame({ [ resident_id |-> r.id, house_no |-> r.house_no,
                   street_name |-> r.street_name,
                   owner_name |-> r.owner_name, owner_phone |-> r.owner_phone,
                   is_rent |-> r.is_rent # 0,
                   facility_water      |-> r.facility_water # 0,
                   facility_security   |-> r.facility_security # 0,
                   facility_sanitation |-> r.facility_sanitation # 0 ] : r \in w.residents })

view_load_families(w) ==
    IF "families" \notin w.tables THEN NoColumns ELSE Frame(w.families)

\* load_bills of view_data.py: COALESCE(x, 0), is_paid filled with 0
view_load_bills(w) ==
    IF "bills" \notin w.tables THEN NoColumns
    ELSE Frame({ [ resident_id |-> b.resident_id, billing_month |-> b.billing_month,
                   water_bill      |-> NumOrZero(b.water_bill),
                   security_bill   |-> NumOrZero(b.security_bill),
                   sanitation_bill |-> NumOrZero(b.sanitation_bill),
                   is_paid |-> 0 ] : b \in w.bills })

\* load_contributions of view_data.py: contributions JOIN funds
view_load_contributions(w) ==
    IF ~({"contributions", "funds"} \subseteq w.tables) THEN NoColumns
    ELSE LET FundOf(c) == CHOOSE f \in w.funds : f.id = c.fund_id IN
         Frame({ [ resident_id |-> c.resident_id,
                   fund_title |-> FundOf(c).fund_title, fund_month |-> FundOf(c).fund_month,
                   amount |-> c.amount ] :
                 c \in {x \in w.contributions : \E f \in w.funds : f.id = x.fund_id} })

ViewFamLoader     == "view_data.load_families"
ViewBillsLoader   == "view_data.load_bills"
ViewContribLoader == "view_data.load_contributions"

\* f"facility_{fac.lower()}"
FacilityColumn(fac) ==
    CASE fac = "Water"    -> "facility_water"
      [] fac = "Security" -> "facility_security"
      [] OTHER            -> "facility_sanitation"

\* the loop over filt["facilities"]: every mask in turn
HasAll(row, facs) == \A fac \in facs : row[FacilityColumn(fac)]

\* residents after the street filter and the facility filter
Filtered(rows, streets, facs) ==
    {r \in rows : (streets = {} \/ r.street_name \in streets) /\ HasAll(r, facs)}

\* residents[["street_name", "house_no"]].drop_duplicates()
houses_df(rows) == {<<r.street_name, r.house_no>> : r \in rows}

\* groupby("street_name").size().reindex(STREETS, fill_value=0)
houses_per_street(rows) ==
    [st \in view_STREETS |-> Cardinality({h \in houses_df(rows) : h[1] = st})]

ViewLoaders == {ViewResLoader, ViewFamLoader, ViewBillsLoader, ViewContribLoader, ViewFundsLoader}

\* the four loaders called after the filters
LoadRest(c, w) ==
    Remember(Remember(Remember(Remember(c,
        ViewFamLoader, view_load_families(w)),
        ViewBillsLoader, view_load_bills(w)),
        ViewContribLoader, view_load_contributions(w)),
        ViewFundsLoader, view_load_funds_summary(w))

\* get_conn is reached only by a loader that is not served from the cache
ConnIfLoaded(d, c, loaders) == IF loaders \subseteq DOMAIN c THEN d ELSE WithConn(d)

\* render of view_data.py with the street filter and the facility filter as set:
\* the Residents tab and the houses-per-street overview as drawn
ViewData(streets, facs) ==
    LET residents == Cached(cache, ViewResLoader, view_load_residents(View))
        c1        == Remember(cache, ViewResLoader, view_load_residents(View))
        c5        == LoadRest(c1, View)
        shown     == Filtered(residents.rows, streets, facs)
        arg       == [streets |-> streets, facilities |-> facs]
    IN
    /\ Dispatch(Me, "View Data")
    /\ streets \subseteq view_STREETS
    /\ facs \subseteq FACILITIES
    /\ UNCHANGED <<db, tx, calls>>
    /\ IF ~residents.cols /\ (streets # {} \/ facs # {})
       THEN \* residents["street_name"] / residents["facility_..."] on a frame without columns
            /\ cache' = c1
            /\ session' = [session EXCEPT ![Me] = ConnIfLoaded(@, cache, {ViewResLoader})]
            /\ last' = [op |-> "view_data", res |-> "KeyError", arg |-> arg, out |-> <<>>]
       ELSE IF ~residents.cols
       THEN \* residents[["street_name", "house_no"]] on a frame without columns
            /\ cache' = c5
            /\ session' = [session EXCEPT ![Me] = ConnIfLoaded(@, cache, ViewLoaders)]
            /\ last' = [op |-> "view_data", res |-> "KeyError", arg |-> arg, out |-> <<>>]
       ELSE IF shown # {} /\ ~(c5[ViewFamLoader].cols /\ c5[ViewBillsLoader].cols
                                   /\ c5[ViewContribLoader].cols)
       THEN \* Resident Summary: frame["resident_id"] on a frame without columns
            /\ cache' = c5
            /\ session' = [session EXCEPT ![Me] =
                              Put(ConnIfLoaded(@, cache, ViewLoaders), "active_tab", "Resident Summary")]
            /\ last' = [op |-> "view_data", res |-> "KeyError", arg |-> arg, out |-> <<>>]
       ELSE /\ cache' = c5
            /\ session' = [session EXCEPT ![Me] = Put(WithConn(@), "active_tab", "Outstanding")]
            /\ last' = [op |-> "view_data", res |-> "ok", arg |-> arg,
                        out |-> [ residents         |-> shown,
                                  houses_cnt        |-> Cardinality(houses_df(shown)),
                                  houses_per_street |-> houses_per_street(shown) ]]

\* "Refresh data" in the sidebar: st.cache_data.clear()
RefreshData ==
    /\ Dispatch(Me, "View Data")
    /\ cache # NoKeys
    /\ cache' = NoKeys
    /\ last' = [op |-> "refresh_data", res |-> "ok", arg |-> <<>>, out |-> <<>>]
    /\ UNCHANGED <<db, tx, calls, session>>

\* ttl=300: five minutes after it was loaded an entry of view_data.py is dropped
Expire(loader) ==
    /\ loader \in DOMAIN cache \cap ViewLoaders
    /\ cache' = Pop(cache, loader)
    /\ UNCHANGED <<db, tx, last, calls, session>>

\* render of edit_data.py with no row ticked: the selector over load_residents
EditSelector ==
    /\ Dispatch(Me, "Edit Data")
    /\ UNCHANGED <<db, tx, calls>>
    /\ session' = [session EXCEPT ![Me] = ConnIfLoaded(@, cache, {EditLoader})]
    /\ IF EditLoader \notin DOMAIN cache /\ "residents" \notin View.tables
       THEN /\ last' = [op |-> "edit_selector", res |-> "OperationalError", arg |-> <<>>,
                        out |-> {}]
            /\ UNCHANGED cache
       ELSE /\ last' = [op |-> "edit_selector", res |-> "ok", arg |-> <<>>,
                        out |-> Cached(cache, EditLoader, edit_load_residents(View))]
            /\ cache' = Remember(cache, EditLoader, edit_load_residents(View))

\* render of delete_data.py with no row ticked: the selector over load_residents_df
DeleteSelector ==
    /\ Dispatch(Me, "Delete Data")
    /\ UNCHANGED <<db, tx, calls>>
    /\ session' = [session EXCEPT ![Me] = ConnIfLoaded(@, cache, {DeleteLoader})]
    /\ IF DeleteLoader \notin DOMAIN cache /\ "residents" \notin View.tables
       THEN /\ last' = [op |-> "delete_selector", res |-> "OperationalError", arg |-> <<>>,
                        out |-> {}]
            /\ UNCHANGED cache
       ELSE /\ last' = [op |-> "delete_selector", res |-> "ok", arg |-> <<>>,
                        out |-> Cached(cache, DeleteLoader, load_residents_df(View))]
            /\ cache' = Remember(cache, DeleteLoader, load_residents_df(View))

\* render of bill_entry.py with no button pressed: the sheet is drawn from the residents
VisitBillEntry ==
    LET imp == ImportBillEntry(db, tx)
        w   == IF imp.tx.open THEN imp.tx.w ELSE imp.db
    IN
    /\ Dispatch(Me, "Bill Entry")
    /\ db' = imp.db
    /\ tx' = imp.tx
    /\ session' = [session EXCEPT ![Me] = WithConn(@)]
    /\ last' = [op |-> "visit_bill_entry",
                res |-> IF "residents" \in w.tables THEN "ok" ELSE "OperationalError",
                arg |-> <<>>, out |-> <<>>]
    /\ UNCHANGED <<calls, cache>>

----------------------------------------------------------------------------
(* The registry: create, update and delete residents *)

NextRegistry ==
    \/ LoginAdmin
    \/ VisitEnterData
    \/ \E house \in {<<>>, TA, TASp, TB}, n \in 1..MaxFloors :
          CreateResident(House(house, n, TRUE, TRUE, TRUE), Heads(n))
    \/ \E rid \in 1..MaxResidents, house \in {<<>>, TA, TB}, n \in 1..MaxFloors :
          UpdateResident(rid, House(house, n, TRUE, TRUE, TRUE), Heads(n), NoFault)
    \/ \E sel \in SUBSET (1..MaxResidents) : DeleteResidents(sel, NoFault, FALSE)

Spec == Init /\ [][NextRegistry]_vars

----------------------------------------------------------------------------
(* The ledgers next to the registry: bills and contributions as child rows *)

\* the sheet, every listed resident with the same three cells
SameCells(ids, triple) == [rid \in ids |-> triple]

\* the contribution editor: the residents in `ticked` carry the amount, the others are blank
Ticks(ids, ticked, amount) ==
    [rid \in ids |-> IF rid \in ticked THEN [ticked |-> TRUE, amount |-> Num(amount)]
                     ELSE [ticked |-> FALSE, amount |-> NaN]]

NextCascade ==
    \/ LoginAdmin
    \/ \E house \in {TA, TB} :
          CreateResident(House(house, 1, TRUE, TRUE, TRUE), Heads(1))
    \/ SaveBills(Year, 1, SameCells(Ids(View), <<Num(300), Num(500), NaN>>), {})
    \/ \E title \in {TF, TG} : CreateFund(title, Year, 1)
    \/ \E fid \in FundIds(View), ticked \in SUBSET Ids(View) :
          SaveContributions(fid, Ticks(Ids(View), ticked, 100))
    \/ \E sel \in SUBSET (1..MaxResidents) : DeleteResidents(sel, NoFault, FALSE)
    \/ \E fid \in FundIds(View) : PressDeleteFund(fid)
    \/ \E fid \in 1..MaxFunds : DeleteFund(fid)

SpecCascade == Init /\ [][NextCascade]_vars

----------------------------------------------------------------------------
(* The registry when statements can fail in the store *)

NextFault ==
    \/ LoginAdmin
    \/ \E house \in {TA, TB}, n \in 1..MaxFloors :
          CreateResident(House(house, n, TRUE, TRUE, TRUE), Heads(n))
    \/ \E rid \in 1..MaxResidents, house \in {TA, TB}, n \in 1..MaxFloors, fault \in 0..(2 + MaxFloors) :
          UpdateResident(rid, House(house, n, TRUE, TRUE, TRUE), Heads(n), fault)
    \/ \E sel \in SUBSET (1..MaxResidents), fault \in 0..MaxResidents, auto \in BOOLEAN :
          DeleteResidents(sel, fault, auto)
    \/ CreateFund(TF, Year, 1)

SpecFault == Init /\ [][NextFault]_vars

----------------------------------------------------------------------------
(* Billing: residents with their facility flags, the monthly sheet, the defaulter scan *)

\* what the user types into one row of the sheet
CellChoices ==
    { Blank,
      <<Num(300), Num(500), NaN>>,
      <<Num(0), Num(0), Num(0)>>,
      <<NoneV, NaN, NaN>> }

BillMonths == {1}

RateLarge == [water |-> 500, security |-> 500, sanitation |-> 1000]
RateSmall == [water |-> 25, security |-> 25, sanitation |-> 25]

FilterChoices == { {}, {"water"}, {"security"}, {"sanitation"} }

\* the example rates for one month, the small rates for the whole year
Queries ==
    [scope : {"Monthly"}, y : {Year}, m : {1, 2}, rates : {RateLarge}, filter : FilterChoices]
    \cup [scope : {"Annual"}, y : {Year}, m : {1}, rates : {RateSmall}, filter : FilterChoices]

\* at most one resident deleted between the load of the sheet and the save
GoneChoices(w) == {{}} \cup {{g} : g \in (1..w.res_seq) \ Ids(w)}

NextBilling ==
    \/ LoginAdmin
    \/ CreateResident(House(TA, 1, TRUE, TRUE, FALSE), Heads(1))
    \/ CreateResident(House(TB, 1, TRUE, TRUE, TRUE), Heads(1))
    \/ \E rid \in Ids(View) : DeleteResidents({rid}, NoFault, FALSE)
    \/ \E m \in BillMonths, gone \in GoneChoices(View) :
          \E who \in {0} \cup Ids(View) \cup gone, typed \in CellChoices :
              /\ who = 0 => typed = Blank
              /\ SaveBills(Year, m, EditedCells(View, FmtMonth(Year, m), gone, who, typed), gone)
    \/ \E q \in Queries : FindDefaulters(q)

SpecBilling == Init /\ [][NextBilling]_vars

----------------------------------------------------------------------------
(* Funds: get-or-create, the contribution editor, the summaries *)

TFSp == <<"f", " ">>

\* a line of the contribution editor: ticked with an amount, ticked with 0,
\* ticked with no amount, un-ticked blank, un-ticked with the amount left in
LineChoices ==
    { [ticked |-> TRUE,  amount |-> Num(100)],
      [ticked |-> TRUE,  amount |-> Num(200)],
      [ticked |-> TRUE,  amount |-> Num(0)],
      [ticked |-> TRUE,  amount |-> NaN],
      [ticked |-> FALSE, amount |-> NaN],
      [ticked |-> FALSE, amount |-> Num(100)] }

NextFunds ==
    \/ LoginAdmin
    \/ \E house \in {TA, TB} :
          CreateResident(House(house, 1, TRUE, TRUE, TRUE), Heads(1))
    \/ \E title \in {TF, TFSp, TG} : CreateFund(title, Year, 1)
    \/ \E fid \in FundIds(View) :
          \E rows \in [Ids(View) -> LineChoices] : SaveContributions(fid, rows)

SpecFunds == Init /\ [][NextFunds]_vars

----------------------------------------------------------------------------
(* The fund summaries over funds of two months *)

NextSummary ==
    \/ LoginAdmin
    \/ \E house \in {TA, TB} :
          CreateResident(House(house, 1, TRUE, TRUE, TRUE), Heads(1))
    \/ \E title \in {TF, TG} : CreateFund(title, Year, 1)
    \/ CreateFund(TF, Year, 2)
    \/ \E fid \in FundIds(View), ticked \in SUBSET Ids(View), amount \in {100, 200} :
          SaveContributions(fid, Ticks(Ids(View), ticked, amount))
    \/ FundSummary

SpecSummary == Init /\ [][NextSummary]_vars

----------------------------------------------------------------------------
(* Two sessions creating funds at the same time *)

\* the funds page was imported once, which created its tables
VisitFundsEntry ==
    /\ Dispatch(Me, "Funds Entry")
    /\ "funds" \notin db.tables
    /\ db' = ImportFundsEntry(db, tx).db
    /\ last' = [op |-> "visit_funds_entry", res |-> "ok", arg |-> <<>>, out |-> <<>>]
    /\ session' = [session EXCEPT ![Me] = WithConn(@)]
    /\ UNCHANGED <<tx, calls, cache>>

NextRace ==
    \/ \E s \in Sessions : Login(s, NameAdmin, "admin123")
    \/ VisitFundsEntry
    \/ \E s \in Sessions, title \in {TF, TG} : GocLookup(s, title, FmtMonth(Year, 1))
    \/ \E s \in Sessions : GocInsert(s)
    \/ \E s \in Sessions : GocCommit(s)

SpecRace == Init /\ [][NextRace]_vars

----------------------------------------------------------------------------
(* The two resident forms with fields left empty or typed as a blank *)

Sp == <<" ">>

TextFields == {"house_no", "street_name", "owner_name", "owner_cnic", "owner_phone"}

\* house A rented out, with the lessee name as typed
Rented(name) ==
    [House(TA, 1, TRUE, TRUE, TRUE) EXCEPT
        !.is_rent = TRUE, !.lessee_name = name, !.lessee_cnic = TX, !.lessee_phone = TX]

\* the entry form: the street comes from the selectbox, every other text is typed
CreateChoices ==
    {House(TA, 1, TRUE, TRUE, TRUE), House(TASp, 1, TRUE, TRUE, TRUE), House(TB, 1, TRUE, TRUE, TRUE)}
    \cup {[House(TA, 1, TRUE, TRUE, TRUE) EXCEPT ![f] = t] :
              f \in TextFields \ {"street_name"}, t \in {<<>>, Sp}}
    \cup {Rented(name) : name \in {<<>>, TX, <<" ", "x">>}}

\* the edit form: every text, the street included, is typed
EditChoices ==
    {House(TA, 1, TRUE, TRUE, TRUE), House(TB, 1, TRUE, TRUE, TRUE)}
    \cup {[House(TA, 1, TRUE, TRUE, TRUE) EXCEPT ![f] = <<>>] : f \in TextFields}
    \cup {Rented(name) : name \in {<<>>, TX}}

\* the family of the one floor: complete, head name empty, head name a blank
FamilyChoices ==
    { Heads(1),
      <<[name |-> <<>>, cnic |-> TF, phone |-> TF]>>,
      <<[name |-> Sp, cnic |-> TF, phone |-> TF]>> }

NextForms ==
    \/ LoginAdmin
    \/ \E d \in CreateChoices, fams \in FamilyChoices : CreateResident(d, fams)
    \/ \E rid \in 1..MaxResidents, d \in EditChoices, fams \in FamilyChoices :
          UpdateResident(rid, d, fams, NoFault)

SpecForms == Init /\ [][NextForms]_vars

----------------------------------------------------------------------------
(* The listings of view_data.py between writes of the other pages *)

\* the entry form: house A on the first street of the selectbox with water only,
\* house B on Street 1 with water and sanitation
StreetChoices ==
    { [House(TA, 1, TRUE, TRUE, FALSE) EXCEPT !.street_name = AlRehmanRoad(NbHyphen)],
      House(TB, 1, TRUE, TRUE, TRUE) }

\* the filters as set: one street or none, one facility or two or none
ViewChoices ==
    { [streets |-> s, facilities |-> f] :
        s \in {{}, {St1}, {AlRehmanRoad(Hyphen)}},
        f \in {{}, {"Water"}, {"Water", "Sanitation"}} }

NextView ==
    \/ LoginAdmin
    \/ VisitEnterData
    \/ VisitBillEntry
    \/ VisitFundsEntry
    \/ \E d \in StreetChoices : CreateResident(d, Heads(1))
    \/ \E rid \in 1..MaxResidents : DeleteResidents({rid}, NoFault, FALSE)
    \/ \E f \in ViewChoices : ViewData(f.streets, f.facilities)
    \/ RefreshData
    \/ \E loader \in ViewLoaders : Expire(loader)

SpecView == Init /\ [][NextView]_vars

----------------------------------------------------------------------------
(* The two-step deletion of a fund, between other pages and a logout *)

NextConfirm ==
    \/ LoginAdmin
    \/ Logout(Me)
    \/ CreateResident(House(TA, 1, TRUE, TRUE, TRUE), Heads(1))
    \/ \E title \in {TF, TG} : CreateFund(title, Year, 1)
    \/ \E fid \in 1..MaxFunds : FundsEditor(fid)
    \/ \E fid \in 1..MaxFunds : PressDeleteFund(fid)
    \/ \E fid \in 1..MaxFunds : CancelDeleteFund(fid)
    \/ \E fid \in 1..MaxFunds : DeleteFund(fid)

SpecConfirm == Init /\ [][NextConfirm]_vars

----------------------------------------------------------------------------
(* Dues after the facilities of a billed resident are edited *)

\* the rates of the two scopes, with any one service ticked
DueQueries ==
    [scope : {"Monthly"}, y : {Year}, m : {1}, rates : {RateLarge},
     filter : {{"water"}, {"security"}, {"sanitation"}}]
    \cup [scope : {"Annual"}, y : {Year}, m : {1}, rates : {RateSmall},
          filter : {{"water"}, {"security"}, {"sanitation"}}]

NextDues ==
    \/ LoginAdmin
    \/ CreateResident(House(TA, 1, TRUE, TRUE, FALSE), Heads(1))
    \/ \E rid \in 1..MaxResidents, wa \in BOOLEAN, sa \in BOOLEAN :
          UpdateResident(rid, House(TA, 1, wa, TRUE, sa), Heads(1), NoFault)
    \/ \E typed \in {<<Num(300), Num(500), Num(0)>>, <<Num(500), Num(0), Num(0)>>} :
          SaveBills(Year, 1, SameCells(Ids(View), typed), {})
    \/ \E q \in DueQueries : FindDefaulters(q)

SpecDues == Init /\ [][NextDues]_vars

----------------------------------------------------------------------------
(* The selectors and editors of every page between writes *)

NextListings ==
    \/ LoginAdmin
    \/ VisitBillEntry
    \/ \E house \in {TA, TB} : CreateResident(House(house, 1, TRUE, TRUE, TRUE), Heads(1))
    \/ \E rid \in 1..MaxResidents : DeleteResidents({rid}, NoFault, FALSE)
    \/ CreateFund(TF, Year, 1)
    \/ \E fid \in 1..MaxFunds : PressDeleteFund(fid)
    \/ \E fid \in 1..MaxFunds : DeleteFund(fid)
    \/ EditSelector
    \/ DeleteSelector
    \/ \E fid \in 1..MaxFunds : FundsEditor(fid)
    \/ ViewData({}, {})

SpecListings == Init /\ [][NextListings]_vars

----------------------------------------------------------------------------
(* Login, logout and the menus of the two roles *)

\* render of dashboard.py: the welcome text
VisitDashboard ==
    /\ Dispatch(Me, "Dashboard")
    /\ last' = [op |-> "dashboard", res |-> "ok", arg |-> <<>>, out |-> <<>>]
    /\ UNCHANGED <<db, tx, calls, session, cache>>

\* the login form: a known name as registered or capitalised, an unknown name,
\* with either password
Credentials ==
    [username : {NameAdmin, <<"A", "d", "m", "i", "n">>, NameUser, <<"x">>},
     password : {"admin123", "user123"}]

NextAccess ==
    \/ \E s \in Sessions, c \in Credentials : Login(s, c.username, c.password)
    \/ \E s \in Sessions : Logout(s)
    \/ VisitDashboard
    \/ VisitEnterData
    \/ CreateResident(House(TA, 1, TRUE, TRUE, TRUE), Heads(1))
    \/ EditSelector
    \/ DeleteSelector
    \/ VisitBillEntry
    \/ VisitFundsEntry
    \/ ViewData({}, {})
    \/ FindDefaulters([scope |-> "Monthly", y |-> Year, m |-> 1, rates |-> RateLarge,
                       filter |-> {"water"}])
    \/ ScriptEnterData
    \/ ScriptSaveRecord(House(TA, 1, TRUE, TRUE, TRUE), Heads(1))

SpecAccess == Init /\ [][NextAccess]_vars

----------------------------------------------------------------------------
(* Properties of the registry *)

\* C2: a create_resident that passes validation with a house id the store
\* already holds fails with the unique-constraint violation (IntegrityError)
\* and leaves every table as it was.
C2_DuplicateHouseRejected ==
    [][ ( /\ last'.op = "create_resident"
          /\ CreateValid(last'.arg.d, last'.arg.fams)
          /\ \E r \in db.residents : r.house_no = Strip(last'.arg.d.house_no) )
        => (last'.res = "IntegrityError" /\ db' = db) ]_vars

\* a duplicate was offered (typed with a trailing blank) while the house was stored
C2_Witness ==
    /\ last.op = "create_resident"
    /\ last.res = "IntegrityError"
    /\ last.arg.d.house_no = TASp
    /\ \E r \in db.residents : r.house_no = TA

\* the number of families rows of a resident on one floor
FamilyCount(w, rid, fl) ==
    BagCardinality([e \in {x \in DOMAIN w.families : x.resident_id = rid /\ x.floor = fl}
                        |-> w.families[e]])

\* C3: every resident has exactly one family row for each floor 1..floors and
\* none for any other floor, whatever creates and updates ran before.
C3_OneFamilyPerFloor ==
    \A r \in db.residents :
        /\ \A fl \in 1..r.floors : FamilyCount(db, r.id, fl) = 1
        /\ \A f \in FamiliesOf(db, r.id) : f.floor \in 1..r.floors

\* an update has just lowered the floor count of an existing resident
C3_Witness ==
    /\ last.op = "update_resident"
    /\ last.res = "ok"
    /\ last.arg.rid \in Ids(db)
    /\ last.out > last.arg.d.floors

----------------------------------------------------------------------------
(* Properties of the cascades *)

\* the child rows of a store that do not reference the residents in sel
OtherResidentRows(w, sel) ==
    [ families      |-> {f \in BagToSet(w.families) : f.resident_id \notin sel},
      counts        |-> [f \in {x \in BagToSet(w.families) : x.resident_id \notin sel} |-> w.families[f]],
      bills         |-> {b \in w.bills : b.resident_id \notin sel},
      contributions |-> {c \in w.contributions : c.resident_id \notin sel} ]

\* C1: once a resident deletion has committed, no families, bills or
\* contributions row references a deleted resident, and once a fund deletion
\* has committed no contributions row references the deleted fund; the child
\* rows of every other resident and of every other fund are the same as before.
C1_CascadeOnDelete ==
    [][ /\ (last'.op = "delete_residents" /\ last'.res = "ok")
           => /\ \A rid \in last'.arg.sel :
                    /\ rid \notin Ids(db')
                    /\ FamiliesOf(db', rid) = {}
                    /\ \A b \in db'.bills : b.resident_id # rid
                    /\ \A c \in db'.contributions : c.resident_id # rid
              /\ OtherResidentRows(db', last'.arg.sel) = OtherResidentRows(View, last'.arg.sel)
        /\ (last'.op = "delete_fund" /\ last'.res = "ok")
           => /\ last'.arg \notin FundIds(db')
              /\ \A c \in db'.contributions : c.fund_id # last'.arg
              /\ {c \in db'.contributions : c.fund_id # last'.arg}
                   = {c \in View.contributions : c.fund_id # last'.arg}
              /\ db'.families = View.families /\ db'.bills = View.bills ]_vars

\* a resident with a family, a bill and a contribution was deleted while
\* another resident keeps a row in each child table
C1_Witness ==
    /\ last.op = "delete_residents"
    /\ last.res = "ok"
    /\ last.out.families > 0 /\ last.out.bills > 0 /\ last.out.contributions > 0
    /\ db.families # EmptyBag /\ db.bills # {} /\ db.contributions # {}

----------------------------------------------------------------------------
(* Properties of the transactions of the registry *)

\* C4: update_resident is atomic.  When it fails, the residents and families
\* tables of the store are what they were; when it succeeds, the new resident
\* fields and exactly one family row per new floor are in the store together;
\* a new house id held by another resident is reported as IntegrityError.
C4_UpdateAtomic ==
    [][ last'.op = "update_resident"
        => /\ IF last'.res = "ok"
              THEN /\ last'.arg.rid \in Ids(db')
                   /\ ResidentOf(db', last'.arg.rid).house_no = Strip(last'.arg.d.house_no)
                   /\ ResidentOf(db', last'.arg.rid).floors = last'.arg.d.floors
                   /\ \A fl \in 1..last'.arg.d.floors : FamilyCount(db', last'.arg.rid, fl) = 1
                   /\ \A f \in FamiliesOf(db', last'.arg.rid) : f.floor \in 1..last'.arg.d.floors
              ELSE /\ db'.residents = db.residents
                   /\ db'.families = db.families
           /\ ( /\ last'.arg.fault = NoFault
                /\ last'.arg.rid \in Ids(View)
                /\ \E r \in View.residents :
                      r.id # last'.arg.rid /\ r.house_no = Strip(last'.arg.d.house_no) )
              => last'.res = "IntegrityError" ]_vars

\* an update of a stored resident failed in the store after the resident row
\* was rewritten and the old family rows were deleted
C4_Witness ==
    /\ last.op = "update_resident"
    /\ last.res = "OperationalError"
    /\ last.arg.fault >= 3
    /\ last.arg.rid \in Ids(db)
    /\ last.out # last.arg.d.floors
    /\ ResidentOf(db, last.arg.rid).floors = last.out

\* C7: delete_residents is all-or-nothing.  A batch that fails removes nothing
\* from the store, and the next operation on the connection, whatever it
\* commits, does not remove a resident either.
C7_DeleteBatchAllOrNothing ==
    [][ /\ (last'.op = "delete_residents" /\ last'.res # "ok") => db' = db
        /\ (last.op = "delete_residents" /\ last.res # "ok" /\ last'.op # "delete_residents")
           => Ids(db) \subseteq Ids(db') ]_vars

----------------------------------------------------------------------------
(* Claims on the ledger and on the defaulter report, checked under SpecBilling *)

\* the rows of a sheet as save_rows receives them
SheetOf(w, cells) ==
    LET rows == load_residents(w)
        live == SelectSeq([i \in 1..Len(rows) |-> rows[i].id], LAMBDA rid : rid \in DOMAIN cells)
    IN  Sheet(live, cells)

\* C5: after record_payments succeeds, every resident of the sheet has exactly
\* one bill row for the month, the row carries the amounts of the sheet, its
\* amount_paid is the sum of its three paid amounts, and saving the same sheet
\* again leaves the bills table as it is.
C5_UpsertLatestAndSummed ==
    [][ (last'.op = "record_payments" /\ last'.res = "ok") =>
          /\ \A rid \in DOMAIN last'.arg.cells :
                /\ Cardinality(BillOf(db', rid, last'.arg.month)) = 1
                /\ \A b \in BillOf(db', rid, last'.arg.month) :
                      /\ \A i \in 1..3 :
                            IsNum(last'.arg.cells[rid][i]) =>
                               <<b.water_bill, b.security_bill, b.sanitation_bill>>[i]
                                  = last'.arg.cells[rid][i]
                      /\ b.amount_paid = Num(NumOrZero(b.water_bill) + NumOrZero(b.security_bill)
                                             + NumOrZero(b.sanitation_bill))
          /\ save_rows(db', db', SheetOf(db', last'.arg.cells), last'.arg.month).st.db.bills
                = db'.bills ]_vars

\* C6: a record_payments call that fails leaves the bills table exactly as it
\* was before the call.
C6_PaymentsAllOrNothing ==
    [][ (last'.op = "record_payments" /\ last'.res # "ok") => db'.bills = db.bills ]_vars

\* a batch failed on the row of a deleted resident after the row of a resident
\* without a bill for the month had been written
C6_Witness ==
    /\ last.op = "record_payments"
    /\ last.res = "IntegrityError"
    /\ \E rid \in Ids(db) \cap DOMAIN last.arg.cells : BillOf(db, rid, last.arg.month) = {}

\* paid amount of a resident for a service over the scope of a query, a
\* missing row or a missing amount counting as nothing paid
RECURSIVE PaidUpTo(_, _, _, _, _)
PaidUpTo(w, rid, svc, y, n) ==
    IF n = 0 THEN 0
    ELSE PaidUpTo(w, rid, svc, y, n - 1) + NumOrZero(PaidInMonth(w, rid, svc, FmtMonth(y, n)))

PaidInScope(w, rid, svc, q) ==
    IF q.scope = "Monthly" THEN NumOrZero(PaidInMonth(w, rid, svc, FmtMonth(q.y, q.m)))
    ELSE PaidUpTo(w, rid, svc, q.y, 12)

Listed == {last.out[i].resident_id : i \in 1..Len(last.out)}

Reported == last.op = "find_defaulters" /\ last.res \in {"list", "no_defaulters"}

Owes(w, r, q) ==
    \E svc \in q.filter : DueFor(r, svc, q) - PaidInScope(w, r.id, svc, q) > 0

\* C8: with a non-empty filter the report lists a resident exactly when the
\* resident's due minus paid is positive for some ticked service, and it gives
\* the no-defaulters outcome exactly when no resident is listed.
C8_ListedIffPendingPositive ==
    Reported =>
       /\ \A r \in View.residents : (r.id \in Listed) <=> Owes(View, r, last.arg)
       /\ (last.res = "no_defaulters") <=> (\A r \in View.residents : ~Owes(View, r, last.arg))

C10_PendingIsDueMinusPaid ==
    (Reported /\ last.arg.scope = "Monthly") =>
       \A i \in 1..Len(last.out) : \A r \in View.residents :
          r.id = last.out[i].resident_id =>
             LET P(svc) == (IF FlagOf(r, svc) = 1 THEN last.arg.rates[svc] ELSE 0)
                           - PaidInScope(View, r.id, svc, last.arg)
             IN  /\ last.out[i].water_pending      = Num(P("water"))
                 /\ last.out[i].security_pending   = Num(P("security"))
                 /\ last.out[i].sanitation_pending = Num(P("sanitation"))
                 /\ last.out[i].total_pending
                       = Num(P("water") + P("security") + P("sanitation"))

----------------------------------------------------------------------------
(* Claims on funds and contributions, checked under SpecFunds and SpecSummary *)

\* C11: after every step the contributions table holds at most one row per
\* (fund, resident) pair and every stored amount is greater than 0; after a
\* saved batch a resident that was un-ticked in it has no row for that fund.
C11_ContributionsPositiveAndUnique ==
    [][ /\ \A c1, c2 \in db'.contributions :
              (c1.fund_id = c2.fund_id /\ c1.resident_id = c2.resident_id) => c1 = c2
        /\ \A c \in db'.contributions : c.amount.k = "num" /\ c.amount.v > 0
        /\ (last'.op = "save_contributions" /\ last'.res = "ok") =>
              \A rid \in DOMAIN last'.arg.rows :
                 ~last'.arg.rows[rid].ticked =>
                    ~\E c \in db'.contributions :
                        c.fund_id = last'.arg.fid /\ c.resident_id = rid ]_vars

\* a saved batch un-ticked a resident whose amount was still in the cell and
\* stored 200 for another resident
C11_Witness ==
    /\ last.op = "save_contributions"
    /\ last.res = "ok"
    /\ \E rid \in DOMAIN last.arg.rows :
          last.arg.rows[rid] = [ticked |-> FALSE, amount |-> Num(100)]
    /\ \E c \in db.contributions : c.fund_id = last.arg.fid /\ c.amount = Num(200)

\* C12: a batch with a line that is ticked without a positive amount is
\* rejected as a whole: InvalidArgument, and no table changes.
C12_BadLineRejectsBatch ==
    [][ ( /\ last'.op = "save_contributions"
          /\ \E rid \in DOMAIN last'.arg.rows :
                /\ last'.arg.rows[rid].ticked
                /\ (last'.arg.rows[rid].amount.k # "num" \/ last'.arg.rows[rid].amount.v <= 0) )
        => (last'.res = "InvalidArgument" /\ db' = db) ]_vars

\* a batch was rejected for a line ticked with 0 although another line of it
\* carried a new amount for a resident with a different stored amount
C12_Witness ==
    /\ last.op = "save_contributions"
    /\ last.res = "InvalidArgument"
    /\ \E bad, good \in DOMAIN last.arg.rows :
          /\ last.arg.rows[bad] = [ticked |-> TRUE, amount |-> Num(0)]
          /\ last.arg.rows[good] = [ticked |-> TRUE, amount |-> Num(200)]
          /\ \E c \in db.contributions :
                c.fund_id = last.arg.fid /\ c.resident_id = good /\ c.amount = Num(100)

\* C13: get_or_create_fund returns the id of the one funds row with the
\* (title, month) key, leaves the store alone when the key was stored, returns
\* the same id when it is called twice in sequence with the same key, and the
\* funds table never holds two rows with one key.
C13_GetOrCreateIdempotent ==
    [][ /\ \A f1, f2 \in db'.funds :
              (f1.fund_title = f2.fund_title /\ f1.fund_month = f2.fund_month) => f1 = f2
        /\ last'.op = "get_or_create_fund" =>
              LET title == Strip(last'.arg.title)
                  had   == {f \in db.funds : f.fund_title = title /\ f.fund_month = last'.arg.month}
                  has   == {f \in db'.funds : f.fund_title = title /\ f.fund_month = last'.arg.month}
              IN  /\ Cardinality(has) = 1
                  /\ \A f \in has : f.id = last'.out
                  /\ had # {} => db' = db
                  /\ ( /\ last.op = "get_or_create_fund"
                       /\ Strip(last.arg.title) = title
                       /\ last.arg.month = last'.arg.month ) => last'.out = last.out ]_vars

\* the first fund was looked up, under a title typed with a trailing blank,
\* after a second fund had been created
C13_Witness ==
    /\ last.op = "get_or_create_fund"
    /\ last.arg.title = TFSp
    /\ last.out = 1
    /\ db.fund_seq = 2
    /\ Cardinality(db.funds) = 2

\* C20: the summary has one entry per fund, each with the sum of the fund's
\* contribution amounts and the number of its contributions greater than 0 (0
\* and 0 for a fund without contributions), ordered by month descending and
\* then by title; the summary of the view page has the same totals and counts.
C20_FundSummary ==
    last.op = "fund_summary" =>
       LET e == last.out.entry
           v == last.out.view
       IN  /\ Len(e) = Cardinality(db.funds)
           /\ {e[i].id : i \in 1..Len(e)} = {f.id : f \in db.funds}
           /\ \A i \in 1..Len(e) :
                 LET rows == {c \in db.contributions : c.fund_id = e[i].id} IN
                 /\ e[i].n_contrib = Cardinality({c \in rows : c.amount.k = "num" /\ c.amount.v > 0})
                 /\ e[i].total_amt = SumAmounts(rows)
                 /\ rows = {} => (e[i].total_amt = 0 /\ e[i].n_contrib = 0)
           /\ \A i, j \in 1..Len(e) :
                 i < j => \/ MonthLess(e[j].fund_month, e[i].fund_month)
                          \/ /\ e[i].fund_month = e[j].fund_month
                             /\ ~TextLess(e[j].fund_title, e[i].fund_title)
           /\ Len(v) = Len(e)
           /\ \A i \in 1..Len(e) :
                 /\ v[i].id = e[i].id
                 /\ v[i].total_amt = e[i].total_amt
                 /\ v[i].n_contrib = e[i].n_contrib

\* a summary of two funds of different months, one without contributions and
\* one with two contributors
C20_Witness ==
    /\ last.op = "fund_summary"
    /\ Len(last.out.entry) = 2
    /\ last.out.entry[1].fund_month # last.out.entry[2].fund_month
    /\ \E i, j \in 1..2 :
          /\ last.out.entry[i].n_contrib = 0
          /\ last.out.entry[j].n_contrib = 2
          /\ last.out.entry[j].total_amt = 400

----------------------------------------------------------------------------
(* Claims on concurrent fund creation, checked under SpecRace *)

\* C14: whatever the interleaving of the lookups and inserts of two sessions,
\* a finished get_or_create_fund call has not raised and has returned the id of
\* the one funds row that carries its (title, month) key.
C14_ConcurrentCreateFallsBack ==
    /\ \A f1, f2 \in db.funds :
          (f1.fund_title = f2.fund_title /\ f1.fund_month = f2.fund_month) => f1 = f2
    /\ \A s \in Sessions :
          calls[s].pc = "done" =>
             /\ calls[s].res = "ok"
             /\ \E f \in db.funds :
                   /\ f.fund_title = calls[s].title
                   /\ f.fund_month = calls[s].month
                   /\ f.id = calls[s].ret

----------------------------------------------------------------------------
(* Claims on the validation of the two resident forms, checked under SpecForms and Spec *)

\* the families rows stored for a resident
StoredFamilies(w, rid) == {x \in DOMAIN w.families : x.resident_id = rid}

\* C15: create_resident persists no resident row with an empty house id,
\* street, owner name, owner national-id or owner phone, no rental row with an
\* empty lessee field and no family row with an empty head field, and an input
\* that fails validation leaves every table as it was.
C15_CreateValidatesBeforeWrite ==
    [][ last'.op = "create_resident" =>
          /\ last'.res = "ValidationError" => db' = db
          /\ \A r \in db'.residents \ db.residents :
                /\ r.house_no # <<>> /\ r.street_name # <<>>
                /\ r.owner_name # <<>> /\ r.owner_cnic # <<>> /\ r.owner_phone # <<>>
                /\ r.is_rent = 1 =>
                      /\ r.lessee_name \notin {<<>>, NoneText}
                      /\ r.lessee_cnic \notin {<<>>, NoneText}
                      /\ r.lessee_phone \notin {<<>>, NoneText}
                /\ \A x \in StoredFamilies(db', r.id) :
                      x.head_name # <<>> /\ x.head_cnic # <<>> /\ x.head_phone # <<>> ]_vars

\* what the entry form requires of an input
EntryRules(d, fams) ==
    /\ d.house_no # <<>> /\ d.street_name # <<>>
    /\ d.owner_name # <<>> /\ d.owner_cnic # <<>> /\ d.owner_phone # <<>>
    /\ d.is_rent => (d.lessee_name # <<>> /\ d.lessee_cnic # <<>> /\ d.lessee_phone # <<>>)
    /\ \A i \in 1..Len(fams) :
          fams[i].name # <<>> /\ fams[i].cnic # <<>> /\ fams[i].phone # <<>>

\* C16: an input that the entry form rejects is rejected by update_resident
\* too, and nothing is written.
C16_UpdateValidatesLikeCreate ==
    [][ (last'.op = "update_resident" /\ ~EntryRules(last'.arg.d, last'.arg.fams))
        => (last'.res # "ok" /\ db' = db) ]_vars

\* C17: update_resident for an id that has no resident row fails with NotFound
\* and leaves every table as it was.
C17_UpdateMissingIsNotFound ==
    [][ ( /\ last'.op = "update_resident"
          /\ EntryRules(last'.arg.d, last'.arg.fams)
          /\ ~\E r \in db.residents : r.id = last'.arg.rid )
        => (last'.res = "NotFound" /\ db' = db) ]_vars

\* an empty lessee field of the input is an absent one in the store
SameLessee(stored, typed) == stored = (IF typed = <<>> THEN NoneText ELSE typed)

\* C18: after an accepted create_resident the lookup by the house id of the
\* input finds one resident whose fields all equal the input, and whose family
\* rows equal the family rows of the input.
C18_CreateRoundTrip ==
    [][ (last'.op = "create_resident" /\ last'.res = "ok") =>
          LET d     == last'.arg.d
              fams  == last'.arg.fams
              found == {r \in db'.residents : r.house_no = d.house_no}
          IN  /\ Cardinality(found) = 1
              /\ \A r \in found :
                    /\ r.street_name = d.street_name
                    /\ r.owner_name = d.owner_name
                    /\ r.owner_cnic = d.owner_cnic
                    /\ r.owner_phone = d.owner_phone
                    /\ r.is_rent = (IF d.is_rent THEN 1 ELSE 0)
                    /\ SameLessee(r.lessee_name, d.lessee_name)
                    /\ SameLessee(r.lessee_cnic, d.lessee_cnic)
                    /\ SameLessee(r.lessee_phone, d.lessee_phone)
                    /\ r.floors = d.floors
                    /\ r.facility_water = (IF d.water THEN 1 ELSE 0)
                    /\ r.facility_security = (IF d.security THEN 1 ELSE 0)
                    /\ r.facility_sanitation = (IF d.sanitation THEN 1 ELSE 0)
                    /\ StoredFamilies(db', r.id)
                          = { [ resident_id |-> r.id, floor |-> i,
                                head_name |-> fams[i].name, head_cnic |-> fams[i].cnic,
                                head_phone |-> fams[i].phone ] : i \in 1..Len(fams) } ]_vars

----------------------------------------------------------------------------
(* Claim on the order of the defaulters list, checked under SpecBilling *)

\* C19: the houses of a defaulters list appear in the order in which they
\* were inserted, that is by increasing resident id.
C19_ListInInsertionOrder ==
    Reported =>
        \A i, j \in 1..Len(last.out) :
            i < j => last.out[i].resident_id < last.out[j].resident_id

----------------------------------------------------------------------------
(* Properties of the listings *)

\* C21: list_residents with a street set and a facility set returns exactly
\* the residents of the store whose street is in the set (all streets when
\* the set is empty) and who subscribe to every facility of the set.
C21_ListMatchesFilters ==
    (last.op = "view_data" /\ last.res = "ok")
        => last.out.residents
             = Filtered(view_load_residents(View).rows, last.arg.streets, last.arg.facilities)

\* C22: the schema is committed before any other component runs: whatever
\* the order of the pages, no operation is executed while a table it reads or
\* writes does not exist.
C22_TablesExistWhenUsed ==
    /\ last.op \in {"visit_bill_entry", "record_payments"}
          => {"residents", "bills"} \subseteq View.tables
    /\ last.op \in {"create_resident", "delete_residents"}
          => {"residents", "families"} \subseteq View.tables
    /\ last.op = "visit_funds_entry"
          => {"funds", "contributions"} \subseteq View.tables

----------------------------------------------------------------------------
(* Properties of the fund deletion *)

\* C23: a fund is deleted only through the two-step confirmation: a fund F
\* leaves the store only in a confirm step taken while the pending target is
\* F; the target becomes F only by pressing delete on F; after a cancel and
\* after a completed delete no target is pending; no other step (another
\* fund selected, another page, logout) removes a fund.
C23_DeleteOnlyAfterConfirm ==
    [][ /\ \A fid \in FundIds(db) \ FundIds(db') :
              /\ last'.op = "delete_fund" /\ last'.arg = fid
              /\ DeleteTarget(Me) = fid
        /\ (DeleteTarget(Me)' # 0 /\ DeleteTarget(Me)' # DeleteTarget(Me))
              => (last'.op = "press_delete_fund" /\ last'.arg = DeleteTarget(Me)')
        /\ (last'.op = "cancel_delete_fund" \/ (last'.op = "delete_fund" /\ last'.res = "ok"))
              => DeleteTarget(Me)' = 0 ]_vars

\* fund 1 was deleted on confirmation: fund 2 is still stored and no target
\* is pending
C23_Witness ==
    /\ last.op = "delete_fund"
    /\ last.arg = 1
    /\ FundIds(db) = {2}
    /\ DeleteTarget(Me) = 0

----------------------------------------------------------------------------
(* Properties of the dues *)

\* the pending column of a line of the scan for one service
PendingShown(line, svc) ==
    CASE svc = "water"    -> line.water_pending
      [] svc = "security" -> line.security_pending
      [] OTHER            -> line.sanitation_pending

\* C24: dues follow the current facility flags: in every scan (monthly or
\* annual) the pending of a service is 0 minus what was paid when the
\* resident's flag is now clear and the full rate of the scope minus what
\* was paid when it is now set, whatever the flag was when the month was
\* billed; and update_resident leaves the stored bill rows as they were.
C24_DuesFollowCurrentFlags ==
    [][ /\ (last'.op = "find_defaulters" /\ last'.res = "list")
            => \A i \in 1..Len(last'.out) : \A svc \in Services :
                  LET r == ResidentOf(View, last'.out[i].resident_id)
                      q == last'.arg
                  IN  PendingShown(last'.out[i], svc)
                        = FSub(Num(IF FlagOf(r, svc) = 0 THEN 0
                                   ELSE q.rates[svc] * MonthCount(q)),
                               PaidFor(View, r, svc, q))
        /\ last'.op = "update_resident" => ViewOf(db', tx').bills = View.bills ]_vars

\* house A was billed with water subscribed and sanitation not (300 of 500
\* paid for water); its flags were then swapped: the scan shows -300 for water
\* and the full 1000 for sanitation
C24_Witness ==
    /\ last.op = "find_defaulters"
    /\ last.res = "list"
    /\ last.arg.scope = "Monthly"
    /\ last.out[1].water_pending = Num(0 - 300)
    /\ last.out[1].sanitation_pending = Num(1000)
    /\ \E b \in db.bills : b.water_bill = Num(300)

----------------------------------------------------------------------------
(* Properties of a sheet saved with blank cells *)

\* C25: a paid amount left blank counts as 0 paid: every stored bill row
\* holds a number for each paid amount, and a scan for the month (or its
\* year) with a ticked service the resident subscribes to at a rate > 0, for
\* which nothing was paid, lists the resident.
C25_BlankCountsAsZero ==
    /\ \A b \in View.bills : \A svc \in Services : IsNum(PaidCell(b, svc))
    /\ Reported =>
          \A r \in View.residents :
             ( /\ \E b \in View.bills : b.resident_id = r.id
               /\ \E svc \in last.arg.filter :
                     /\ FlagOf(r, svc) = 1
                     /\ last.arg.rates[svc] > 0
                     /\ PaidInScope(View, r.id, svc, last.arg) = 0 )
             => r.id \in Listed

----------------------------------------------------------------------------
(* Properties of the cached listings *)

\* C26: after a committed write the next listing of any page reflects the
\* store: the selectors of the edit and delete pages, the residents and funds
\* of the fund editor and the unfiltered view-data table show exactly the
\* stored residents and funds (none omitted, none deleted still shown).
C26_ListingsReflectStore ==
    /\ (last.op \in {"edit_selector", "delete_selector"} /\ last.res = "ok")
          => last.out = Ids(View)
    /\ (last.op = "funds_editor" /\ last.res = "ok")
          => /\ last.out.residents = Ids(View)
             /\ {last.out.funds[i].id : i \in 1..Len(last.out.funds)} = FundIds(View)
    /\ (last.op = "view_data" /\ last.res = "ok" /\ last.arg.streets = {}
           /\ last.arg.facilities = {})
          => {r.resident_id : r \in last.out.residents} = Ids(View)

----------------------------------------------------------------------------
(* Properties of the login gate *)

\* the page whose render performs an operation
PageOf ==
    [op \in {"dashboard", "visit_enter_data", "create_resident", "edit_selector",
             "update_resident", "delete_selector", "delete_residents",
             "visit_bill_entry", "record_payments", "visit_funds_entry", "funds_editor",
             "get_or_create_fund", "press_delete_fund", "cancel_delete_fund",
             "delete_fund", "save_contributions", "view_data", "refresh_data",
             "find_defaulters"} |->
        CASE op = "dashboard" -> "Dashboard"
          [] op \in {"visit_enter_data", "create_resident"} -> "Enter Data"
          [] op \in {"edit_selector", "update_resident"} -> "Edit Data"
          [] op \in {"delete_selector", "delete_residents"} -> "Delete Data"
          [] op \in {"visit_bill_entry", "record_payments"} -> "Bill Entry"
          [] op \in {"view_data", "refresh_data"} -> "View Data"
          [] op = "find_defaulters" -> "Defaulters"
          [] OTHER -> "Funds Entry"]

\* C27: a page's render runs only while the session is logged in and only
\* for a page of the menu of its role (Dashboard and View Data for role
\* 'user'); a session becomes logged in only in a login step for which
\* authenticate returns the role it then holds.
C27_RenderOnlyByMenu ==
    [][ /\ (last'.op \in DOMAIN PageOf /\ last' # last)
            => /\ session[Me]["logged_in"]
               /\ PageOf[last'.op] \in Menu(session[Me]["role"])
               /\ session[Me]["role"] = "user"
                     => PageOf[last'.op] \in {"Dashboard", "View Data"}
        /\ \A s \in Sessions :
              (~session[s]["logged_in"] /\ session'[s]["logged_in"])
                 => /\ last'.op = "login"
                    /\ session'[s]["role"] \in {"admin", "user"}
                    /\ authenticate(last'.arg.username, last'.arg.password)
                          = session'[s]["role"] ]_vars

LoginKeys == {"logged_in", "role", "username"}

\* C28: logged_in, role and username change only in a login or logout step
\* of the session; the reset after a saved entry leaves exactly these three
\* keys, with their values; a logout leaves the session as a first run finds
\* it: logged out, role and username unset, no other key.
C28_LoginKeysFrame ==
    [][ /\ \A s \in Sessions :
              Keep(session'[s], LoginKeys) # Keep(session[s], LoginKeys)
                 => (last'.op \in {"login", "logout"} /\ last'.arg.s = s)
        /\ (last'.op = "create_resident" /\ last'.res = "ok" /\ db' # db)
              => session'[Me] = Keep(session[Me], LoginKeys)
        /\ \A s \in Sessions :
              (last'.op = "logout" /\ last'.arg.s = s /\ session'[s] # session[s])
                 => session'[s] = [logged_in |-> FALSE, role |-> "None", username |-> NoneText] ]_vars

\* an entry was saved by the logged-in administrator after Bill Entry had
\* opened the session connection: the connection key is gone, the login stays
C28_Witness ==
    /\ last.op = "create_resident"
    /\ last.res = "ok"
    /\ "bills" \in db.tables
    /\ DOMAIN session[Me] = LoginKeys
    /\ session[Me]["logged_in"]
    /\ session[Me]["role"] = "admin"
    /\ session[Me]["username"] = <<"A", "d", "m", "i", "n">>

----------------------------------------------------------------------------
(* Properties of the street lists *)

RECURSIVE SumOver(_, _)
SumOver(f, S) ==
    IF S = {} THEN 0
    ELSE LET x == CHOOSE y \in S : TRUE IN f[x] + SumOver(f, S \ {x})

\* C29: every street of the entry form is an option of the view-data street
\* filter and a row of the houses-per-street overview: every stored resident
\* is on a street the filter offers, and in the unfiltered view the
\* per-street house counts add up to the number of houses.
C29_StreetsAgree ==
    /\ \A r \in View.residents : r.street_name \in view_STREETS
    /\ (last.op = "view_data" /\ last.res = "ok" /\ last.arg.streets = {}
           /\ last.arg.facilities = {})
          => /\ \A r \in last.out.residents :
                   r.street_name \in DOMAIN last.out.houses_per_street
             /\ SumOver(last.out.houses_per_street, DOMAIN last.out.houses_per_street)
                   = last.out.houses_cnt

----------------------------------------------------------------------------
(* Properties of the total of a defaulter line *)

\* C30: for every resident listed by find_defaulters the total pending is
\* the sum of the pendings (due minus paid, not clamped) of all three
\* services, ticked or not, and equals the sum of the three pending columns
\* shown on the line.
C30_TotalIsSumOfThree ==
    (last.op = "find_defaulters" /\ last.res = "list")
       => \A i \in 1..Len(last.out) :
             LET line == last.out[i]
                 r    == ResidentOf(View, line.resident_id)
             IN  /\ line.total_pending
                       = FAdd(FAdd(PendingFor(View, r, "water", last.arg),
                                   PendingFor(View, r, "security", last.arg)),
                              PendingFor(View, r, "sanitation", last.arg))
                 /\ line.total_pending
                       = FAdd(FAdd(line.water_pending, line.security_pending),
                              line.sanitation_pending)

\* the annual scan with only security ticked lists house A, whose water was
\* overpaid after the service was cancelled: 300 pending for security, -500
\* for water, total -200
C30_Witness ==
    /\ last.op = "find_defaulters"
    /\ last.res = "list"
    /\ last.arg.filter = {"security"}
    /\ last.out[1].security_pending = Num(300)
    /\ last.out[1].water_pending = Num(0 - 500)
    /\ last.out[1].total_pending = Num(0 - 200)

============================================================================
